---- MODULE Spec2Model ----
(***************************************************************************)
(* State-machine model of the ingestion service: the file-backed vector    *)
(* index (vector_store.py), release merge (api.py), the release manager    *)
(* (releases.py), the retrieval service (retrieval_service.py) and the     *)
(* ingestion pipeline (pipeline.py).                                       *)
(*                                                                         *)
(* Strings whose surrounding whitespace the code inspects (chunk ids and   *)
(* filter values, through str.strip) are sequences of character codes with *)
(* 0 standing for a blank; Python's string order is the lexicographic      *)
(* order of these sequences.  Other strings are TLA+ strings, "" being the *)
(* empty (falsy) string.                                                   *)
(***************************************************************************)
EXTENDS Integers, Sequences, FiniteSets, TLC

VARIABLES
    index,        \* vector_index/<d>/<r>/index.jsonl : [present, rows]
    chunkFiles,   \* chunks/<d>/<r>/<chunk_id>.json   : path -> content
    embFiles,     \* embeddings/<d>/<r>/<name>.json   : path -> content
    canonFiles,   \* canonical/<d>/<r>/<clo_id>.json  : path -> content
    releaseJson,  \* releases/<d>/releases/<r>/release.json : path -> content
    releaseDirs,  \* releases/<d>/releases/<r>/ : the directories that exist
    active,       \* releases/<d>/active_release.txt  : d -> release id or ""
    audit,        \* releases/<d>/audit.jsonl         : d -> sequence of events
    last,         \* the last completed call: its arguments and its outcome
    written,      \* history: the (d, r, chunk_id) ever upserted or merged into an index
    nops,         \* number of calls made so far
    procs,        \* the requests in progress: process -> its position and locals
    captures,     \* captures/<d>/<capture_id>.html and .json : html files, records
    env,          \* the environment variables of the service process: name -> value
    obs           \* observability/<d>/events.jsonl and counters.json : d -> [events, counters]

storeVars == <<index, chunkFiles, embFiles, canonFiles>>
relVars == <<releaseJson, releaseDirs, active, audit>>
vars == <<index, chunkFiles, embFiles, canonFiles, releaseJson, releaseDirs, active, audit,
          last, written, nops, procs, captures, env, obs>>

Domains == {"d1", "d2"}
Releases == {"r1", "r2"}

\* Bound on the number of calls in one behaviour of the store specification.
MaxOps == 2

-----------------------------------------------------------------------------
(* Strings as character sequences *)

RECURSIVE StripLeft(_)
StripLeft(s) == IF s # <<>> /\ Head(s) = 0 THEN StripLeft(Tail(s)) ELSE s

RECURSIVE StripRight(_)
StripRight(s) ==
    IF s # <<>> /\ s[Len(s)] = 0 THEN StripRight(SubSeq(s, 1, Len(s) - 1)) ELSE s

\* str.strip()
Strip(s) == StripRight(StripLeft(s))

\* Python's str `<`
RECURSIVE LexLess(_, _)
LexLess(a, b) ==
    IF a = <<>> THEN b # <<>>
    ELSE IF b = <<>> THEN FALSE
    ELSE IF Head(a) # Head(b) THEN Head(a) < Head(b)
    ELSE LexLess(Tail(a), Tail(b))

\* sorted(keys) of a dict whose keys are strings
RECURSIVE SortedKeys(_)
SortedKeys(S) ==
    IF S = {} THEN <<>>
    ELSE LET m == CHOOSE x \in S : \A y \in S \ {x} : LexLess(x, y)
         IN  <<m>> \o SortedKeys(S \ {m})

\* dict assignment d[k] = v
Put(f, k, v) == (k :> v) @@ f

\* an environment variable that is unset, and one that is set to a value
Unset == [set |-> FALSE, value |-> ""]
Setting(v) == [set |-> TRUE, value |-> v]

\* os.getenv(name) or "": the value of a variable, "" when it is unset
Getenv(e, name) == IF e[name].set THEN e[name].value ELSE ""

\* the environment the pipeline of this model runs in: deterministic embeddings
DefaultEnv ==
    [OLLAMA_EMBED_MODEL |-> Setting("deterministic"), RETRIEVAL_EMBED_PROVIDER |-> Unset]

\* counters.json: absent, holding a JSON object, or unparsable (opened for writing and
\* still empty, or overwritten in part by two writers)
NoCounters == [state |-> "absent", map |-> [k \in {} |-> 0], opened_by |-> ""]

\* events.jsonl and counters.json of every domain before the first event
NoObs == [d \in Domains |-> [events |-> <<>>, counters |-> NoCounters]]

\* the capture store with no capture in it
NoCaptures == [html |-> [q \in {} |-> ""], meta |-> [q \in {} |-> <<>>]]

-----------------------------------------------------------------------------
(* Embedding references and files *)

NoPath == [d |-> "", r |-> "", cid |-> <<>>, vec |-> <<>>]
NoRef == [scheme |-> "none", path |-> NoPath]
FileRef(p) == [scheme |-> "file", path |-> p]
OtherRef == [scheme |-> "other", path |-> NoPath]

\* embeddings path <root>/<d>/<r>/<chunk_id>_emb_<sha256(vector)>.json
EmbPath(d, r, cid, vec) == [d |-> d, r |-> r, cid |-> cid, vec |-> vec]
ChunkPath(d, r, cid) == [d |-> d, r |-> r, cid |-> cid]

\* FileEmbeddingStore.put: the file written and the reference returned
EmbPutContent(d, r, cid, vec) ==
    [chunk_id |-> cid, domain |-> d, release_id |-> r, vector |-> vec]

\* persist_chunks: the content written for one chunk
ChunkFileContent(ch) ==
    [chunk_id |-> ch.chunk_id, domain |-> ch.domain, release_id |-> ch.release_id]

-----------------------------------------------------------------------------
(* vector_store.py: upsert *)

\* first validation error among the chunks, "" when all are valid
ChunkError(ch, domain, release_id) ==
    IF ch.domain # domain THEN "chunk domain does not match upsert domain"
    ELSE IF ch.release_id # release_id THEN "chunk release_id does not match upsert release_id"
    ELSE IF ch.chunk_id = <<>> THEN "chunk_id is required"
    ELSE IF ch.text = "" THEN "text is required"
    ELSE IF ch.embedding_ref.scheme = "none" THEN "embedding_ref is required for indexing"
    ELSE ""

RECURSIVE ValidateChunks(_, _, _)
ValidateChunks(chunks, domain, release_id) ==
    IF chunks = <<>> THEN ""
    ELSE LET e == ChunkError(Head(chunks), domain, release_id)
         IN  IF e # "" THEN e ELSE ValidateChunks(Tail(chunks), domain, release_id)

\* optional filter metadata copied to a row: kept only when a non-blank string
RowFilterValue(v) == IF Strip(v) # <<>> THEN Strip(v) ELSE <<>>

RowOfChunk(ch, domain, release_id) ==
    [chunk_id |-> ch.chunk_id, domain |-> domain, release_id |-> release_id,
     text |-> ch.text, embedding_ref |-> ch.embedding_ref,
     concept_id |-> RowFilterValue(ch.concept_id), level |-> RowFilterValue(ch.level)]

\* the dict `existing` read from the index file: chunk_id -> row, later lines win
RECURSIVE ReadExisting(_, _)
ReadExisting(rows, acc) ==
    IF rows = <<>> THEN acc
    ELSE LET obj == Head(rows)
         IN  ReadExisting(Tail(rows),
                 IF obj.chunk_id # <<>> THEN Put(acc, obj.chunk_id, obj) ELSE acc)

RECURSIVE ApplyChunks(_, _, _, _)
ApplyChunks(chunks, existing, domain, release_id) ==
    IF chunks = <<>> THEN existing
    ELSE ApplyChunks(Tail(chunks),
             Put(existing, Head(chunks).chunk_id, RowOfChunk(Head(chunks), domain, release_id)),
             domain, release_id)

\* the lines written back: one per key, in sorted key order
LinesOf(map) == LET ks == SortedKeys(DOMAIN map) IN [i \in 1..Len(ks) |-> map[ks[i]]]

EmptyMap == [k \in {} |-> <<>>]

\* the file rewritten with the rows of the chunks alone
UpsertRowsOnlyNew(rows, domain, release_id, chunks) ==
    LinesOf(ApplyChunks(chunks, EmptyMap, domain, release_id))
\* rows appended to the file, nothing replaced or sorted
UpsertRowsAppend(rows, domain, release_id, chunks) ==
    rows \o [i \in 1..Len(chunks) |-> RowOfChunk(chunks[i], domain, release_id)]
\* the lines of the index file after the chunks are applied to the rows read
UpsertRows(rows, domain, release_id, chunks) ==
    LinesOf(ApplyChunks(chunks, ReadExisting(rows, EmptyMap), domain, release_id))

\* an upsert that writes the valid chunks and then reports the error
UpsertWritesBeforeValidation(file, domain, release_id, chunks) ==
    LET e == IF domain = "" THEN "domain is required"
             ELSE IF release_id = "" THEN "release_id is required"
             ELSE ValidateChunks(chunks, domain, release_id)
        valid == SelectSeq(chunks, LAMBDA ch : ChunkError(ch, domain, release_id) = "")
    IN  [error |-> e,
         file |-> [present |-> TRUE,
                   rows |-> UpsertRows(IF file.present THEN file.rows ELSE <<>>,
                                       domain, release_id, valid)]]
\* LocalJsonlVectorStore.upsert on the index file of (domain, release_id):
\* the error raised ("" when none) and the file afterwards
UpsertFile(file, domain, release_id, chunks) ==
    LET e == IF domain = "" THEN "domain is required"
             ELSE IF release_id = "" THEN "release_id is required"
             ELSE ValidateChunks(chunks, domain, release_id)
    IN  IF e # "" THEN [error |-> e, file |-> file]
        ELSE [error |-> "",
              file |-> [present |-> TRUE,
                        rows |-> UpsertRows(IF file.present THEN file.rows ELSE <<>>,
                                            domain, release_id, chunks)]]

-----------------------------------------------------------------------------
(* vector_store.py: query *)

\* A filter value as the caller passes it: a string, a value of another type,
\* or no entry for the key.
FilterStr(s) == [kind |-> "str", s |-> s]
FilterNonStr == [kind |-> "nonstr", s |-> <<>>]
FilterAbsent == [kind |-> "absent", s |-> <<>>]

FilterKeys == {"concept_id", "level"}

\* a required value taken without strip
OptFilterValueNoStrip(filters, k) ==
    LET v == filters[k] IN IF v.kind = "str" /\ Strip(v.s) # <<>> THEN v.s ELSE <<>>
\* _opt_filter_value: the required value, <<>> standing for None
OptFilterValue(filters, k) ==
    LET v == filters[k] IN IF v.kind = "str" /\ Strip(v.s) # <<>> THEN Strip(v.s) ELSE <<>>

\* _matches_filters; a row stores <<>> for a key it does not have
MatchesFilters(row, filters) ==
    \A k \in FilterKeys :
        LET required == OptFilterValue(filters, k)
        IN  required = <<>> \/ (row[k] # <<>> /\ row[k] = required)

\* A score dot / sqrt(na * nb) is kept exactly, as the pair (num, den2).
ZeroScore == [num |-> 0, den2 |-> 1]

RECURSIVE SumProd(_, _, _)
SumProd(a, b, i) == IF i = 0 THEN 0 ELSE a[i] * b[i] + SumProd(a, b, i - 1)

\* _cosine
Cosine(a, b) ==
    IF a = <<>> \/ b = <<>> \/ Len(a) # Len(b) THEN ZeroScore
    ELSE LET dot == SumProd(a, b, Len(a))
             na == SumProd(a, a, Len(a))
             nb == SumProd(b, b, Len(b))
         IN  IF na <= 0 \/ nb <= 0 THEN ZeroScore ELSE [num |-> dot, den2 |-> na * nb]

\* s < t and s = t as real numbers
ScoreLess(s, t) ==
    IF s.num < 0 /\ t.num >= 0 THEN TRUE
    ELSE IF s.num >= 0 /\ t.num < 0 THEN FALSE
    ELSE IF s.num >= 0 THEN s.num * s.num * t.den2 < t.num * t.num * s.den2
    ELSE s.num * s.num * t.den2 > t.num * t.num * s.den2
ScoreEq(s, t) == ~ScoreLess(s, t) /\ ~ScoreLess(t, s)

\* _load_vector_from_embedding_ref: reading a missing file raises
LoadVector(ref, ef) ==
    IF ref.scheme = "none" THEN [ok |-> TRUE, vec |-> <<>>]
    ELSE IF ref.scheme = "file"
         THEN IF ref.path \in DOMAIN ef
              THEN [ok |-> TRUE, vec |-> ef[ref.path].vector]
              ELSE [ok |-> FALSE, vec |-> <<>>]
         ELSE [ok |-> TRUE, vec |-> <<>>]

\* the candidates (score, row) in file order; ok is FALSE when a load raised
RECURSIVE Candidates(_, _, _, _)
Candidates(rows, filters, query_vector, ef) ==
    IF rows = <<>> THEN [ok |-> TRUE, cands |-> <<>>]
    ELSE LET obj == Head(rows)
             rest == Candidates(Tail(rows), filters, query_vector, ef)
         IN  IF ~MatchesFilters(obj, filters) THEN rest
             ELSE LET v == LoadVector(obj.embedding_ref, ef)
                  IN  IF ~v.ok \/ ~rest.ok THEN [ok |-> FALSE, cands |-> <<>>]
                      ELSE [ok |-> TRUE,
                            cands |-> <<[score |-> Cosine(query_vector, v.vec), obj |-> obj]>>
                                      \o rest.cands]

\* the order with the score ascending
CandLessAscending(c1, c2) ==
    \/ ScoreLess(c1.score, c2.score)
    \/ ScoreEq(c1.score, c2.score) /\ LexLess(c1.obj.chunk_id, c2.obj.chunk_id)
\* the sort key (-score, chunk_id)
CandLess(c1, c2) ==
    \/ ScoreLess(c2.score, c1.score)
    \/ ScoreEq(c1.score, c2.score) /\ LexLess(c1.obj.chunk_id, c2.obj.chunk_id)

\* list.sort is stable: an element goes after the elements that are not greater
RECURSIVE InsertCand(_, _)
InsertCand(sorted, x) ==
    IF sorted = <<>> THEN <<x>>
    ELSE IF CandLess(x, Head(sorted)) THEN <<x>> \o sorted
    ELSE <<Head(sorted)>> \o InsertCand(Tail(sorted), x)

RECURSIVE SortCands(_, _)
SortCands(cands, acc) ==
    IF cands = <<>> THEN acc ELSE SortCands(Tail(cands), InsertCand(acc, Head(cands)))

RowOut(c) ==
    [chunk_id |-> c.obj.chunk_id, domain |-> c.obj.domain, release_id |-> c.obj.release_id,
     text |-> c.obj.text, embedding_ref |-> c.obj.embedding_ref, score |-> c.score,
     concept_id |-> c.obj.concept_id, level |-> c.obj.level]

\* candidates[:top_k] for top_k > 0
Take(s, top_k) == SubSeq(s, 1, IF Len(s) < top_k THEN Len(s) ELSE top_k)

\* LocalJsonlVectorStore.query: error is "" and rows the result, or an error raised
QueryStore(idx, ef, domain, release_id, query_vector, filters, top_k) ==
    IF domain = "" THEN [error |-> "domain is required", rows |-> <<>>]
    ELSE IF release_id = "" THEN [error |-> "release_id is required", rows |-> <<>>]
    ELSE IF top_k <= 0 THEN [error |-> "", rows |-> <<>>]
    ELSE IF ~idx[domain][release_id].present THEN [error |-> "", rows |-> <<>>]
    ELSE LET c == Candidates(idx[domain][release_id].rows, filters, query_vector, ef)
         IN  IF ~c.ok THEN [error |-> "FileNotFoundError", rows |-> <<>>]
             ELSE LET top == Take(SortCands(c.cands, <<>>), top_k)
                  IN  [error |-> "", rows |-> [i \in 1..Len(top) |-> RowOut(top[i])]]

-----------------------------------------------------------------------------
(* api.py: _merge_releases *)

\* _is_file_embedding_ref
IsFileEmbeddingRef(ref) == ref.scheme = "file"

\* the canonical copy loop: a file of a source is copied unless the target
\* already has one of that name; domain and provenance.release_id are rewritten
RECURSIVE CopyCanonical(_, _, _, _)
CopyCanonical(cn, domain, sources, target) ==
    IF sources = <<>> THEN cn
    ELSE LET src == Head(sources)
             names == {p.id : p \in {q \in DOMAIN cn : q.d = domain /\ q.r = src}}
             todo == {n \in names : [d |-> domain, r |-> target, id |-> n] \notin DOMAIN cn}
             copied == [p \in {[d |-> domain, r |-> target, id |-> n] : n \in todo} |->
                          [cn[[d |-> domain, r |-> src, id |-> p.id]]
                              EXCEPT !.domain = domain, !.release_id = target]]
         IN  CopyCanonical(copied @@ cn, domain, Tail(sources), target)

\* a merged row that keeps its source's release_id
MergedRowKeepsRelease(row, domain, target, dest_emb) ==
    [row EXCEPT !.domain = domain, !.embedding_ref = FileRef(dest_emb)]
\* the row written to the target index for a row kept from a source
MergedRow(row, domain, target, dest_emb) ==
    [row EXCEPT !.domain = domain, !.release_id = target, !.embedding_ref = FileRef(dest_emb)]

\* a copy that leaves the payload as it was in the source
PatchScopeNothing(obj, domain, target) == obj
\* _patch_chunk and _patch_emb: the payload _copy_rewrite_json writes to the target
PatchScope(obj, domain, target) == [obj EXCEPT !.domain = domain, !.release_id = target]

\* one row of a source index; st carries the chunk and embedding files, the
\* dict merged_rows, the duplicate count and the error raised so far
MergeRow(st, domain, src_rid, target, row) ==
    LET chunk_id == Strip(row.chunk_id)
        src_chunk == ChunkPath(domain, src_rid, chunk_id)
        dest_chunk == ChunkPath(domain, target, chunk_id)
    IN  IF st.error # "" \/ chunk_id = <<>> THEN st
        ELSE IF chunk_id \in DOMAIN st.merged THEN [st EXCEPT !.dups = @ + 1]
        ELSE IF src_chunk \notin DOMAIN st.cf THEN [st EXCEPT !.error = "missing chunk file"]
        ELSE LET cf2 == Put(st.cf, dest_chunk, PatchScope(st.cf[src_chunk], domain, target))
                 ref == row.embedding_ref
             IN  IF ~IsFileEmbeddingRef(ref)
                 THEN [st EXCEPT !.cf = cf2, !.error = "unsupported embedding_ref"]
                 ELSE IF ref.path \notin DOMAIN st.ef
                 THEN [st EXCEPT !.cf = cf2, !.error = "missing embedding file"]
                 ELSE LET dest_emb == EmbPath(domain, target, ref.path.cid, ref.path.vec)
                          ef2 == Put(st.ef, dest_emb, PatchScope(st.ef[ref.path], domain, target))
                          new_row == MergedRow(row, domain, target, dest_emb)
                      IN  [st EXCEPT !.cf = cf2, !.ef = ef2,
                                     !.merged = Put(@, chunk_id, new_row)]

RECURSIVE MergeRows(_, _, _, _, _)
MergeRows(st, domain, src_rid, target, rows) ==
    IF rows = <<>> THEN st
    ELSE MergeRows(MergeRow(st, domain, src_rid, target, Head(rows)),
                   domain, src_rid, target, Tail(rows))

RECURSIVE MergeSources(_, _, _, _, _)
MergeSources(st, idx, domain, sources, target) ==
    IF sources = <<>> THEN st
    ELSE LET src == Head(sources)
             st2 == IF idx[domain][src].present
                    THEN MergeRows(st, domain, src, target, idx[domain][src].rows)
                    ELSE st
         IN  MergeSources(st2, idx, domain, Tail(sources), target)

\* a merge that writes the rows merged so far when a row fails
MergeReleasesWritesPartial(idx, cf, ef, cn, domain, sources, target) ==
    LET cn2 == CopyCanonical(cn, domain, sources, target)
        st == MergeSources([cf |-> cf, ef |-> ef, merged |-> EmptyMap, dups |-> 0,
                            error |-> ""], idx, domain, sources, target)
        lines == LinesOf(st.merged)
    IN  [error |-> st.error,
         index |-> [idx EXCEPT ![domain][target] = [present |-> TRUE, rows |-> lines]],
         chunkFiles |-> st.cf, embFiles |-> st.ef, canonFiles |-> cn2,
         rows_written |-> Len(lines), duplicates_skipped |-> st.dups,
         source_releases |-> Len(sources)]
\* _merge_releases: the stores afterwards, the error raised ("" when none) and
\* the summary returned
MergeReleases(idx, cf, ef, cn, domain, sources, target) ==
    LET cn2 == CopyCanonical(cn, domain, sources, target)
        st == MergeSources([cf |-> cf, ef |-> ef, merged |-> EmptyMap, dups |-> 0,
                            error |-> ""], idx, domain, sources, target)
        lines == LinesOf(st.merged)
    IN  [error |-> st.error,
         index |-> IF st.error # "" THEN idx
                   ELSE [idx EXCEPT ![domain][target] = [present |-> TRUE, rows |-> lines]],
         chunkFiles |-> st.cf, embFiles |-> st.ef, canonFiles |-> cn2,
         rows_written |-> Len(lines), duplicates_skipped |-> st.dups,
         source_releases |-> Len(sources)]

-----------------------------------------------------------------------------
(* Inputs of the store specifications *)

\* chunk ids "a", "b", " b" (a padded id), "c"; levels "L1", " L1", "L2"
Chunk(d, r, cid, text, ref, concept, level) ==
    [chunk_id |-> cid, domain |-> d, release_id |-> r, text |-> text,
     embedding_ref |-> ref, concept_id |-> concept, level |-> level]

A1(d, r) == Chunk(d, r, <<1>>, "t1", FileRef(EmbPath(d, r, <<1>>, <<1, 0>>)), <<1>>, <<1>>)
A2(d, r) == Chunk(d, r, <<1>>, "t2", FileRef(EmbPath(d, r, <<1>>, <<0, 1>>)), <<>>, <<>>)
B1(d, r) == Chunk(d, r, <<2>>, "t1", FileRef(EmbPath(d, r, <<2>>, <<0, 1>>)), <<>>, <<0, 1>>)
SB(d, r) == Chunk(d, r, <<0, 2>>, "t2", FileRef(EmbPath(d, r, <<0, 2>>, <<-1, 0>>)), <<>>, <<2>>)
\* an embedding_ref of a scheme other than file:
BO(d, r) == Chunk(d, r, <<2>>, "t1", OtherRef, <<1>>, <<2>>)
\* an embedding_ref naming a file that was never written
CM(d, r) == Chunk(d, r, <<3>>, "t1", FileRef(EmbPath(d, r, <<3>>, <<1, 0>>)), <<>>, <<>>)

OtherDomain(d) == CHOOSE x \in Domains : x # d
OtherRelease(r) == CHOOSE x \in Releases : x # r

ValidLists(d, r) ==
    { <<>>, <<A1(d, r)>>, <<A2(d, r)>>, <<B1(d, r)>>, <<SB(d, r)>>, <<BO(d, r)>>, <<CM(d, r)>>,
      <<A1(d, r), B1(d, r)>>, <<A1(d, r), A2(d, r)>>, <<SB(d, r), A1(d, r)>>,
      <<SB(d, r), B1(d, r)>> }

InvalidLists(d, r) ==
    { <<A1(OtherDomain(d), r)>>,
      <<A1(d, OtherRelease(r))>>,
      <<[A1(d, r) EXCEPT !.chunk_id = <<>>]>>,
      <<[B1(d, r) EXCEPT !.text = ""]>>,
      <<[B1(d, r) EXCEPT !.embedding_ref = NoRef]>>,
      <<A1(d, r), B1(OtherDomain(d), r)>>,
      <<B1(d, r), [A1(d, r) EXCEPT !.chunk_id = <<>>]>>,
      <<SB(d, OtherRelease(r)), A1(d, r)>> }

ChunkLists(d, r) == ValidLists(d, r) \cup InvalidLists(d, r)

SourceLists == { <<"r1", "r2">>, <<"r2", "r1">>, <<"r1", "r1">> }

\* what persist_chunks and FileEmbeddingStore.put leave on disk for the valid
\* chunks above, in every (domain, release): the state of a pipeline that has
\* persisted its chunks and embeddings and not yet upserted
PersistedChunkFiles ==
    LET chs == UNION { {A1(d, r), B1(d, r), SB(d, r), CM(d, r)} : d \in Domains, r \in Releases }
    IN  [p \in {ChunkPath(c.domain, c.release_id, c.chunk_id) : c \in chs} |->
            [chunk_id |-> p.cid, domain |-> p.d, release_id |-> p.r]]

PersistedEmbFiles ==
    LET chs == UNION { {A1(d, r), A2(d, r), B1(d, r), SB(d, r)} : d \in Domains, r \in Releases }
    IN  [p \in {c.embedding_ref.path : c \in chs} |-> EmbPutContent(p.d, p.r, p.cid, p.vec)]

NoFile == [present |-> FALSE, rows |-> <<>>]

NoFilters == [concept_id |-> FilterAbsent, level |-> FilterAbsent, other |-> FilterAbsent]

-----------------------------------------------------------------------------
(* The store specification: direct calls of upsert, _merge_releases, query *)

InitStore ==
    /\ index = [d \in Domains |-> [r \in Releases |-> NoFile]]
    /\ chunkFiles = PersistedChunkFiles
    /\ embFiles = PersistedEmbFiles
    /\ canonFiles = [p \in {} |-> <<>>]
    /\ releaseJson = [p \in {} |-> <<>>]
    /\ releaseDirs = {}
    /\ procs = <<>>
    /\ captures = NoCaptures
    /\ env = DefaultEnv
    /\ obs = NoObs
    /\ active = [d \in Domains |-> ""]
    /\ audit = [d \in Domains |-> <<>>]
    /\ last = [op |-> "none"]
    /\ written = {}
    /\ nops = 0

Upsert(d, r, chunks) ==
    LET res == UpsertFile(index[d][r], d, r, chunks)
    IN  /\ index' = [index EXCEPT ![d][r] = res.file]
        /\ last' = [op |-> "upsert", d |-> d, r |-> r, chunks |-> chunks, error |-> res.error]
        /\ written' = IF res.error # "" THEN written
                      ELSE written \cup {[d |-> d, r |-> r, cid |-> chunks[i].chunk_id] :
                                            i \in 1..Len(chunks)}
        /\ UNCHANGED <<chunkFiles, embFiles, canonFiles, relVars, procs, captures, env, obs>>

Merge(d, sources, target) ==
    LET res == MergeReleases(index, chunkFiles, embFiles, canonFiles, d, sources, target)
    IN  /\ index' = res.index
        /\ chunkFiles' = res.chunkFiles
        /\ embFiles' = res.embFiles
        /\ canonFiles' = res.canonFiles
        /\ last' = [op |-> "merge", d |-> d, sources |-> sources, target |-> target,
                    error |-> res.error, rows_written |-> res.rows_written,
                    duplicates_skipped |-> res.duplicates_skipped]
        /\ written' = IF res.error # "" THEN written
                      ELSE written \cup {[d |-> d, r |-> target,
                                           cid |-> res.index[d][target].rows[i].chunk_id] :
                                            i \in 1..Len(res.index[d][target].rows)}
        /\ UNCHANGED <<relVars, procs, captures, env, obs>>

Query(d, r, query_vector, filters, top_k) ==
    LET res == QueryStore(index, embFiles, d, r, query_vector, filters, top_k)
    IN  /\ last' = [op |-> "query", d |-> d, r |-> r, query_vector |-> query_vector,
                    filters |-> filters, top_k |-> top_k,
                    error |-> res.error, rows |-> res.rows]
        /\ UNCHANGED <<storeVars, relVars, written, procs, captures, env, obs>>

Counted == nops < MaxOps /\ nops' = nops + 1

NextStore ==
    \/ \E d \in Domains, r \in Releases : \E chunks \in ChunkLists(d, r) :
          Counted /\ Upsert(d, r, chunks)
    \/ \E d \in Domains, src \in SourceLists, target \in Releases :
          Counted /\ Merge(d, src, target)
    \/ \E d \in Domains, r \in Releases :
          Query(d, r, <<1, 1>>, NoFilters, 4) /\ UNCHANGED nops

SpecStore == InitStore /\ [][NextStore]_vars

-----------------------------------------------------------------------------
(* Claims on the store specification *)

\* C4: every row a query on (d, r) returns carries domain d and release_id r
\* and is a chunk that was upserted or merged into (d, r).
C4_ScopeIsolation ==
    (last.op = "query" /\ last.error = "") =>
        \A i \in 1..Len(last.rows) :
            /\ last.rows[i].domain = last.d
            /\ last.rows[i].release_id = last.r
            /\ [d |-> last.d, r |-> last.r, cid |-> last.rows[i].chunk_id] \in written

\* a query that returned rows of a merged index while another index of the same
\* domain holds rows too
C4_Witness ==
    /\ last.op = "query" /\ last.error = "" /\ Len(last.rows) >= 2
    /\ index[last.d][OtherRelease(last.r)].rows # <<>>
    /\ \E i \in 1..Len(last.rows) :
          [d |-> last.d, r |-> OtherRelease(last.r), cid |-> last.rows[i].chunk_id] \in written

\* the condition of C5 on one chunk, stated from the claim
InvalidChunk(ch, d, r) ==
    \/ ch.domain # d
    \/ ch.release_id # r
    \/ ch.chunk_id = <<>>
    \/ ch.text = ""
    \/ ch.embedding_ref.scheme = "none"

\* C5: an upsert whose list holds an invalid chunk raises and leaves every
\* index file exactly as it was.
C5_InvalidUpsertWritesNothing ==
    [][ (last'.op = "upsert" /\ nops' = nops + 1
         /\ \E i \in 1..Len(last'.chunks) : InvalidChunk(last'.chunks[i], last'.d, last'.r))
        => (last'.error # "" /\ index' = index) ]_vars

\* a failed upsert whose invalid chunk comes after a valid one, on an index
\* that already holds rows
C5_Witness ==
    /\ last.op = "upsert" /\ last.error # "" /\ Len(last.chunks) = 2
    /\ ~InvalidChunk(last.chunks[1], last.d, last.r)
    /\ index[last.d][last.r].rows # <<>>

StrictlyAscending(rows) ==
    \A i \in 1..(Len(rows) - 1) : LexLess(rows[i].chunk_id, rows[i + 1].chunk_id)

\* C6: the lines of every index.jsonl are strictly ascending by chunk_id.
C6_IndexSorted ==
    \A d \in Domains, r \in Releases : StrictlyAscending(index[d][r].rows)

\* C7: upserting the list just upserted a second time leaves the index file
\* identical.
C7_UpsertIdempotent ==
    (last.op = "upsert" /\ last.error = "") =>
        UpsertFile(index[last.d][last.r], last.d, last.r, last.chunks).file
            = index[last.d][last.r]

\* a successful upsert of two chunks into an index that held other rows
C7_Witness ==
    /\ last.op = "upsert" /\ last.error = "" /\ Len(last.chunks) = 2
    /\ Len(index[last.d][last.r].rows) >= 3

\* the rows of the source indexes of a merge, in the order the sources were given
RECURSIVE SourceRows(_, _, _)
SourceRows(idx, d, sources) ==
    IF sources = <<>> THEN <<>>
    ELSE (IF idx[d][Head(sources)].present THEN idx[d][Head(sources)].rows ELSE <<>>)
         \o SourceRows(idx, d, Tail(sources))

\* C16: after a successful merge the target index has exactly one row for each distinct
\* chunk_id of the source indexes, taken from the first source row that has that
\* chunk_id; rows_written is the number of distinct chunk_ids and duplicates_skipped is
\* the number of source rows minus rows_written
C16_MergeFirstWins ==
    [][(last'.op = "merge" /\ last'.error = "") =>
          LET src == SourceRows(index, last'.d, last'.sources)
              ids == {src[i].chunk_id : i \in 1..Len(src)}
              out == index'[last'.d][last'.target].rows
              First(id) == src[CHOOSE i \in 1..Len(src) :
                                  /\ src[i].chunk_id = id
                                  /\ \A j \in 1..(i - 1) : src[j].chunk_id # id]
          IN  /\ Len(out) = Cardinality(ids)
              /\ \A id \in ids : \E i \in 1..Len(out) :
                    /\ out[i].chunk_id = id
                    /\ [out[i] EXCEPT !.release_id = First(id).release_id,
                                      !.embedding_ref = First(id).embedding_ref] = First(id)
                    /\ out[i].embedding_ref.path.vec = First(id).embedding_ref.path.vec
              /\ last'.rows_written = Cardinality(ids)
              /\ last'.duplicates_skipped = Len(src) - last'.rows_written]_vars

-----------------------------------------------------------------------------
(* The query specification: upserts into one index and queries with filters *)

\* Bound on the top_k values tried: -1 .. MaxTopK
MaxTopK == 3

QueryVectors == { <<1, 0>>, <<1, 1>> }

\* filter dicts: no entry, "L1", " L1 ", "L2" with a blank concept_id, a
\* non-string level with concept "K1", an unrecognized key only, two required
\* keys, and an empty string
FilterDicts ==
    { NoFilters,
      [NoFilters EXCEPT !.level = FilterStr(<<1>>)],
      [NoFilters EXCEPT !.level = FilterStr(<<0, 1, 0>>)],
      [NoFilters EXCEPT !.level = FilterStr(<<2>>), !.concept_id = FilterStr(<<0, 0>>)],
      [NoFilters EXCEPT !.level = FilterNonStr, !.concept_id = FilterStr(<<1>>)],
      [NoFilters EXCEPT !.other = FilterStr(<<9>>)],
      [NoFilters EXCEPT !.level = FilterStr(<<1>>), !.concept_id = FilterStr(<<1>>)],
      [NoFilters EXCEPT !.level = FilterStr(<<>>)] }

NextQuery ==
    \/ \E chunks \in ValidLists("d1", "r1") : Upsert("d1", "r1", chunks) /\ UNCHANGED nops
    \/ \E r \in Releases, q \in QueryVectors, f \in FilterDicts, k \in (-1)..MaxTopK :
          Query("d1", r, q, f, k) /\ UNCHANGED nops

SpecQuery == InitStore /\ [][NextQuery]_vars

\* the rows of the index file a query reads
IndexRows(d, r) == IF index[d][r].present THEN index[d][r].rows ELSE <<>>

\* the score of an index row for a query vector
ScoreOf(row, q) == Cosine(q, LoadVector(row.embedding_ref, embFiles).vec)

\* (s1, c1) comes before (s2, c2): higher score, or equal score and smaller id
RankedBefore(s1, c1, s2, c2) ==
    ScoreLess(s2, s1) \/ (ScoreEq(s1, s2) /\ LexLess(c1, c2))

\* C8: a query returns the first min(top_k, n) of the n filter-matching rows in
\* the order (-score, chunk_id), and nothing for top_k <= 0.
C8_QueryRanking ==
    (last.op = "query" /\ last.error = "") =>
        LET rows == last.rows
            idx == IndexRows(last.d, last.r)
            M == {j \in 1..Len(idx) : MatchesFilters(idx[j], last.filters)}
            n == Cardinality(M)
        IN  IF last.top_k <= 0 THEN rows = <<>>
            ELSE /\ Len(rows) = (IF last.top_k < n THEN last.top_k ELSE n)
                 /\ \A i \in 1..Len(rows) : \E j \in M :
                       /\ rows[i].chunk_id = idx[j].chunk_id
                       /\ rows[i].text = idx[j].text
                       /\ rows[i].embedding_ref = idx[j].embedding_ref
                       /\ rows[i].score = ScoreOf(idx[j], last.query_vector)
                 /\ \A i, j \in 1..Len(rows) : i < j =>
                       RankedBefore(rows[i].score, rows[i].chunk_id,
                                    rows[j].score, rows[j].chunk_id)
                 /\ \A j \in M :
                       (\A i \in 1..Len(rows) : rows[i].chunk_id # idx[j].chunk_id) =>
                           \A i \in 1..Len(rows) :
                               RankedBefore(rows[i].score, rows[i].chunk_id,
                                            ScoreOf(idx[j], last.query_vector),
                                            idx[j].chunk_id)

\* a query that cut three or more matching rows down to two rows of equal score
C8_Witness ==
    /\ last.op = "query" /\ last.error = "" /\ last.top_k = 2 /\ Len(last.rows) = 2
    /\ Len(IndexRows(last.d, last.r)) >= 3
    /\ ScoreEq(last.rows[1].score, last.rows[2].score)
    /\ last.rows[1].score # ZeroScore

Required(v) == v.kind = "str" /\ Strip(v.s) # <<>>

-----------------------------------------------------------------------------
(* releases.py: ReleaseManager, and retrieval_service.py: RetrievalService *)

\* str.strip on the release ids and domains used here; "" is also how None is written
StripStr(s) ==
    CASE s = " r1" -> "r1"
      [] s = "  " -> ""
      [] s = " " -> ""
      [] OTHER -> s

\* ReleaseManager.get_active_release: the stripped pointer, "" for None
GetActiveRelease(act, domain) == StripStr(act[domain])

\* a promotion that writes the pointer file of every domain
WritePointerEverywhere(act, domain, release_id) == [x \in DOMAIN act |-> release_id]
\* promote_release: active_release.txt of the domain is written with the id as given
WritePointer(act, domain, release_id) == [act EXCEPT ![domain] = release_id]

\* ReleaseManager.list_audit: the last `limit` events, newest first
ListAudit(aud, domain, limit) ==
    IF aud[domain] = <<>> \/ limit <= 0 THEN <<>>
    ELSE LET lines == aud[domain]
             n == IF Len(lines) < limit THEN Len(lines) ELSE limit
         IN  [i \in 1..n |-> lines[Len(lines) + 1 - i]]

\* the audit event promote_release appends
PromoteEvent(domain, release_id, previous, promoted_by, now) ==
    [timestamp |-> now, event |-> "security_release_promoted", domain |-> domain,
     release_id |-> release_id, previous_release_id |-> previous, actor |-> promoted_by]

\* the metadata create_release writes to release.json
ReleaseMeta(domain, release_id, created_by, now) ==
    [release_id |-> release_id, domain |-> domain, created_by |-> created_by,
     created_at |-> now]

\* a resolution that prefers the active pointer to the caller's id
ResolveReleaseIdActiveFirst(act, domain, release_id) ==
    LET a == GetActiveRelease(act, domain)
    IN  IF a # "" THEN [error |-> "", release_id |-> a]
        ELSE IF release_id # "" THEN [error |-> "", release_id |-> release_id]
        ELSE [error |-> "NotFound", release_id |-> ""]

\* _resolve_release_id
ResolveReleaseId(act, domain, release_id) ==
    IF release_id # "" THEN [error |-> "", release_id |-> release_id]
    ELSE LET a == GetActiveRelease(act, domain)
         IN  IF a = "" THEN [error |-> "NotFound", release_id |-> ""]
             ELSE [error |-> "", release_id |-> a]

\* RETRIEVAL_EMBED_MAX_CHARS, scaled down
MaxChars == 2

\* _trim_query
TrimQuery(text) ==
    LET trimmed == Strip(text)
    IN  IF Len(trimmed) > MaxChars THEN SubSeq(trimmed, 1, MaxChars) ELSE trimmed

\* the embedder: a deterministic function of the trimmed query text
EmbedText(text) == IF Head(text) = 1 THEN <<1, 0>> ELSE <<1, 1>>

\* the default of RetrievalService.query's top_k
DefaultTopK == 5

\* top_k as RetrievalService.query hands it to the store: int(top_k or 5)
StoreTopK(top_k) == IF top_k = 0 THEN DefaultTopK ELSE top_k

NoRetrieval ==
    [error |-> "", release_id |-> "", embed_called |-> FALSE, store_called |-> FALSE,
     store_release |-> "", store_top_k |-> 0, query_vector |-> <<>>, results |-> <<>>]

\* RetrievalService.query
RetrievalQuery(idx, ef, act, domain, query, filters, top_k, release_id) ==
    IF StripStr(domain) = "" THEN [NoRetrieval EXCEPT !.error = "domain is required"]
    ELSE IF Strip(query) = <<>> THEN [NoRetrieval EXCEPT !.error = "query is required"]
    ELSE LET res == ResolveReleaseId(act, domain, release_id)
         IN  IF res.error # "" THEN [NoRetrieval EXCEPT !.error = res.error]
             ELSE LET vec == EmbedText(TrimQuery(query))
                      q == QueryStore(idx, ef, domain, res.release_id, vec, filters,
                                      StoreTopK(top_k))
                  IN  [error |-> q.error, release_id |-> res.release_id,
                       embed_called |-> TRUE, store_called |-> TRUE,
                       store_release |-> res.release_id, store_top_k |-> StoreTopK(top_k),
                       query_vector |-> vec, results |-> q.rows]

-----------------------------------------------------------------------------
(* The release specification: create_release, promote_release and retrieval *)

MaxRelOps == 2

\* list_audit's default limit
AuditLimit == 100

PromoteIds == Releases \cup {" r1", "  ", ""}
RetrievalDomains == {"d1", " "}
QueryTexts == { <<1>>, <<0, 2, 3, 4, 0>>, <<0>> }
LevelFilter == [NoFilters EXCEPT !.level = FilterStr(<<1>>)]

InitRel ==
    /\ index = [d \in Domains |-> [r \in Releases |->
                  IF d = "d1" /\ r = "r1"
                  THEN UpsertFile(NoFile, d, r, <<A1(d, r), B1(d, r)>>).file
                  ELSE IF d = "d1" /\ r = "r2"
                  THEN UpsertFile(NoFile, d, r, <<A2(d, r)>>).file
                  ELSE NoFile]]
    /\ chunkFiles = PersistedChunkFiles
    /\ embFiles = PersistedEmbFiles
    /\ canonFiles = [p \in {} |-> <<>>]
    /\ releaseJson = [p \in {} |-> <<>>]
    /\ releaseDirs = {}
    /\ procs = <<>>
    /\ captures = NoCaptures
    /\ env = DefaultEnv
    /\ obs = NoObs
    /\ active = [d \in Domains |-> ""]
    /\ audit = [d \in Domains |-> <<>>]
    /\ last = [op |-> "none"]
    /\ written = {}
    /\ nops = 0

\* ReleaseManager.create_release
CreateRelease(d, r, created_by) ==
    IF r = ""
    THEN /\ last' = [op |-> "create_release", d |-> d, r |-> r,
                     error |-> "release_id is required"]
         /\ UNCHANGED <<storeVars, relVars, written, procs, captures, env, obs>>
    ELSE /\ releaseDirs' = releaseDirs \cup {<<d, r>>}
         /\ releaseJson' = Put(releaseJson, <<d, r>>, ReleaseMeta(d, r, created_by, nops))
         /\ last' = [op |-> "create_release", d |-> d, r |-> r, error |-> ""]
         /\ UNCHANGED <<storeVars, active, audit, written, procs, captures, env, obs>>

\* ReleaseManager.promote_release
PromoteRelease(d, r, promoted_by) ==
    LET previous == GetActiveRelease(active, d)
    IN  IF r = ""
        THEN /\ last' = [op |-> "promote", d |-> d, r |-> r,
                         error |-> "release_id is required"]
             /\ UNCHANGED <<storeVars, relVars, written, procs, captures, env, obs>>
        ELSE /\ releaseDirs' = releaseDirs \cup {<<d, r>>}
             /\ active' = WritePointer(active, d, r)
             /\ audit' = [audit EXCEPT
                            ![d] = Append(@, PromoteEvent(d, r, previous, promoted_by, nops))]
             /\ last' = [op |-> "promote", d |-> d, r |-> r, error |-> ""]
             /\ UNCHANGED <<storeVars, releaseJson, written, procs, captures, env, obs>>

\* RetrievalService.query, called as the /retrieve handler calls it
Retrieve(d, query, filters, top_k, release_id) ==
    LET res == RetrievalQuery(index, embFiles, active, d, query, filters, top_k, release_id)
    IN  /\ last' = [op |-> "retrieve", d |-> d, query |-> query, filters |-> filters,
                    top_k |-> top_k, release_arg |-> release_id, res |-> res]
        /\ UNCHANGED <<storeVars, relVars, written, procs, captures, env, obs>>

CountedRel == nops < MaxRelOps /\ nops' = nops + 1

NextRel ==
    \/ \E d \in Domains, r \in Releases \cup {""} :
          CountedRel /\ CreateRelease(d, r, "ops")
    \/ \E d \in Domains, r \in PromoteIds :
          CountedRel /\ PromoteRelease(d, r, "ops")
    \/ \E d \in RetrievalDomains, q \in QueryTexts, f \in {NoFilters, LevelFilter},
          k \in {0, 2}, r \in Releases \cup {""} :
          Retrieve(d, q, f, k, r) /\ UNCHANGED nops

SpecRel == InitRel /\ [][NextRel]_vars

\* C2: after promote_release(d, r) returns, get_active_release(d) = r and
\* list_audit(d)[0] is that promotion's event: release_id = r and previous_release_id
\* the release that was active for d immediately before the call (none if none was)
C2_PromoteThenActive ==
    [][(last'.op = "promote" /\ last'.error = "") =>
          /\ GetActiveRelease(active', last'.d) = last'.r
          /\ ListAudit(audit', last'.d, AuditLimit) # <<>>
          /\ ListAudit(audit', last'.d, AuditLimit)[1].release_id = last'.r
          /\ ListAudit(audit', last'.d, AuditLimit)[1].previous_release_id
                = GetActiveRelease(active, last'.d)]_vars

\* C3: a retrieval that passes validation targets the caller's release_id when one is
\* given, whatever the active pointer; otherwise the domain's active release; and with
\* neither it fails with NotFound, the embedder and the store uncalled, no state changed
C3_ReleaseResolution ==
    [][(last'.op = "retrieve" /\ StripStr(last'.d) # "" /\ Strip(last'.query) # <<>>) =>
          LET res == last'.res
              arg == last'.release_arg
              act == GetActiveRelease(active, last'.d)
          IN  /\ arg # "" =>
                    res.store_called /\ res.store_release = arg /\ res.release_id = arg
              /\ (arg = "" /\ act # "") =>
                    res.store_called /\ res.store_release = act /\ res.release_id = act
              /\ (arg = "" /\ act = "") =>
                    /\ res.error = "NotFound"
                    /\ ~res.embed_called /\ ~res.store_called
              /\ UNCHANGED <<storeVars, relVars>>]_vars

C3_Witness ==
    /\ last.op = "retrieve"
    /\ last.d \in Domains
    /\ last.release_arg # ""
    /\ GetActiveRelease(active, last.d) \notin {"", last.release_arg}
    /\ last.res.store_release = last.release_arg
    /\ last.res.results # <<>>

\* check_release_records, the part on active pointers: an issue for each domain whose
\* pointer file exists and is blank, or names a release without release.json
ActivePointerIssues(act, rj) ==
    { [code |-> IF StripStr(act[d]) = "" THEN "active_release_empty"
                ELSE "active_release_missing",
       domain |-> d] :
        d \in {x \in DOMAIN act :
                  /\ act[x] # ""
                  /\ \/ StripStr(act[x]) = ""
                     \/ <<x, StripStr(act[x])>> \notin DOMAIN rj} }

\* C23: after any sequence of create_release and promote_release calls a domain's
\* active pointer, when present, names a release whose release.json exists: the gate
\* finds no active_release_missing
C23_ActiveHasRecord ==
    \A i \in ActivePointerIssues(active, releaseJson) : i.code # "active_release_missing"

\* C29: RetrievalService.query hands the caller's top_k to the store unchanged: the
\* results are at most top_k for every top_k >= 0, and none for top_k = 0
C29_TopKForwarded ==
    (last.op = "retrieve" /\ last.res.store_called /\ last.top_k >= 0) =>
        /\ last.res.store_top_k = last.top_k
        /\ Len(last.res.results) <= last.top_k

-----------------------------------------------------------------------------
(* pipeline.py: run_ingestion, and the handlers of api.py that drive it *)

\* the requests of the concurrent specification all address one domain
ConcDomain == "d1"

\* an item of a batch (or the body of /ingestion/run): a source and its html
ItemA == [source_id |-> "sA", raw_html |-> "hA"]
ItemB == [source_id |-> "sB", raw_html |-> "hB"]
ItemBlank == [source_id |-> "sC", raw_html |-> " "]

\* the codes that stand for the sha256 digests: one per distinct hashed input
DomainCode(d) == IF d = "d1" THEN 1 ELSE 2
ReleaseCode(r) == IF r = "r1" THEN 1 ELSE 2
SourceCode(item) == IF item.source_id = "sA" THEN 1 ELSE 2

\* _canonical_id: a digest of domain | release_id | source_id | section_id
CanonicalId(d, r, item) == <<DomainCode(d), ReleaseCode(r), SourceCode(item)>>

\* _chunk_id: a digest of domain | release_id | clo_id | chunk_index | text
ChunkId(d, r, item, chunk_index) == CanonicalId(d, r, item) \o <<chunk_index + 1>>

\* distill, classify, canonicalize and chunk: hA yields one object of two chunks,
\* hB one object of one chunk; the chunks carry no embedding_ref yet
ItemChunks(d, r, item) ==
    IF item.raw_html = "hA"
    THEN << Chunk(d, r, ChunkId(d, r, item, 0), "t1", NoRef, <<>>, <<>>),
            Chunk(d, r, ChunkId(d, r, item, 1), "t2", NoRef, <<>>, <<>>) >>
    ELSE << Chunk(d, r, ChunkId(d, r, item, 0), "t1", NoRef, <<>>, <<>>) >>

\* the canonical object canonicalize_sections persists for an item
CanonPath(d, r, item) == [d |-> d, r |-> r, id |-> CanonicalId(d, r, item)]
CanonContent(d, r, item) ==
    [id |-> CanonicalId(d, r, item), domain |-> d, release_id |-> r,
     source_id |-> item.source_id]

\* the ingestion embedder: a deterministic function of the chunk text
EmbedChunk(text) == IF text = "t1" THEN <<1, 0>> ELSE <<0, 1>>

\* FileEmbeddingStore.put that returns a reference and writes no file
StorePutWritesNothing(ef, ch) == ef

\* FileEmbeddingStore.put for one chunk: the embedding files afterwards
StorePut(ef, ch) ==
    LET vec == EmbedChunk(ch.text)
    IN  Put(ef, EmbPath(ch.domain, ch.release_id, ch.chunk_id, vec),
            EmbPutContent(ch.domain, ch.release_id, ch.chunk_id, vec))

\* attach_embeddings_for_chunks: the chunk with the reference put returned
WithEmbeddingRef(ch) ==
    [ch EXCEPT !.embedding_ref =
        FileRef(EmbPath(ch.domain, ch.release_id, ch.chunk_id, EmbedChunk(ch.text)))]

\* run_ingestion's validation of raw_html (domain, source_id, release_id are given)
RawHtmlBlank(item) == item.raw_html \in {"", " "}

\* create_release as the batch, run and merge handlers call it: the base metadata
\* updated with the caller's payload
WriteReleaseJson(rj, d, r, created_by, payload, now) ==
    Put(rj, <<d, r>>, payload @@ ReleaseMeta(d, r, created_by, now))

\* the payloads the handlers pass to create_release
BatchPayload == [mode |-> "batch"]
MergePayload(sources) == [mode |-> "merge", source_release_ids |-> sources]
RunPayload(d, r, item) ==
    [source_id |-> item.source_id, source_hash |-> SourceCode(item),
     chunks |-> Len(ItemChunks(d, r, item))]

-----------------------------------------------------------------------------
(* The concurrent specification: one ingestion request (a batch, or a single
   run), one merge, one promotion and one retrieval, their steps interleaved *)

IdleIngestion ==
    [pc |-> "idle", mode |-> "", r |-> "", items |-> <<>>, continue_on_error |-> FALSE,
     i |-> 0, chunks |-> <<>>, k |-> 0, with_emb |-> <<>>, existing |-> NoFile,
     results |-> <<>>, final |-> {}]
IdleMerge == [pc |-> "idle", sources |-> <<>>, target |-> "", final |-> {}]
IdlePromote == [pc |-> "idle", r |-> "", previous |-> ""]
IdleRetrieve ==
    [pc |-> "idle", release_arg |-> "", resolved |-> "", error |-> "", during |-> {},
     read |-> {}, results |-> <<>>]

ItemLists == { <<ItemA, ItemB>>, <<ItemBlank, ItemA>>, <<ItemA>> }

\* the chunk ids an index file holds
IdsOf(file) == IF file.present THEN {file.rows[j].chunk_id : j \in 1..Len(file.rows)} ELSE {}

\* the state a finished run_ingestion of ItemB into (ConcDomain, "r2") leaves
InitConc ==
    LET d == ConcDomain
        chs == ItemChunks(d, "r2", ItemB)
        embs == [j \in 1..Len(chs) |-> WithEmbeddingRef(chs[j])]
    IN  /\ index = [x \in Domains |-> [r \in Releases |->
                      IF x = d /\ r = "r2" THEN UpsertFile(NoFile, d, r, embs).file
                      ELSE NoFile]]
        /\ chunkFiles = [q \in {ChunkPath(d, "r2", chs[j].chunk_id) : j \in 1..Len(chs)} |->
                            [chunk_id |-> q.cid, domain |-> d, release_id |-> "r2"]]
        /\ embFiles = StorePut([q \in {} |-> <<>>], chs[1])
        /\ canonFiles = Put([q \in {} |-> <<>>], CanonPath(d, "r2", ItemB),
                            CanonContent(d, "r2", ItemB))
        /\ releaseJson = WriteReleaseJson([q \in {} |-> <<>>], d, "r2", "ops",
                                           RunPayload(d, "r2", ItemB), 0)
        /\ releaseDirs = {<<d, "r2">>}
        /\ active = [x \in Domains |-> ""]
        /\ audit = [x \in Domains |-> <<>>]
        /\ last = [op |-> "none"]
        /\ written = {}
        /\ nops = 0
        /\ captures = NoCaptures
        /\ env = DefaultEnv
        /\ obs = NoObs
        /\ procs = [ing |-> IdleIngestion, merge |-> IdleMerge, promote |-> IdlePromote,
                    retrieve |-> IdleRetrieve]

\* the variables no step of the concurrent specification writes
histVars == <<last, written, nops, captures, env, obs>>

\* ingestion_run (mode "run") or ingestion_run_batch (mode "batch") is called
StartIngestion(mode, r, items, coe) ==
    /\ procs.ing.pc = "idle"
    /\ mode = "run" => Len(items) = 1
    /\ procs' = [procs EXCEPT !.ing = [IdleIngestion EXCEPT
                    !.pc = IF mode = "batch" THEN "create" ELSE "validate",
                    !.mode = mode, !.r = r, !.items = items, !.continue_on_error = coe,
                    !.i = 1]]
    /\ UNCHANGED <<storeVars, relVars, histVars>>

\* ingestion_run_batch: create_release before the first item
BatchCreateRelease ==
    LET p == procs.ing
    IN  /\ p.pc = "create"
        /\ releaseDirs' = releaseDirs \cup {<<ConcDomain, p.r>>}
        /\ releaseJson' = WriteReleaseJson(releaseJson, ConcDomain, p.r, "ops", BatchPayload, nops)
        /\ procs' = [procs EXCEPT !.ing.pc = "validate"]
        /\ UNCHANGED <<storeVars, active, audit, histVars>>

\* the handler's state after item i ended with ok: the next item, or the end; a failed
\* item ends a single run, and a batch unless continue_on_error
AfterItem(p, ok, idx) ==
    LET stop == ~ok /\ (p.mode = "run" \/ ~p.continue_on_error)
        more == p.i < Len(p.items)
    IN  [p EXCEPT !.results = Append(@, ok),
                  !.chunks = <<>>, !.with_emb = <<>>, !.k = 0, !.existing = NoFile,
                  !.i = IF stop \/ ~more THEN @ ELSE @ + 1,
                  !.pc = IF stop THEN "failed"
                         ELSE IF more THEN "validate"
                         ELSE IF p.mode = "run" /\ ok THEN "release"
                         ELSE "done",
                  !.final = IF stop \/ (~more /\ ~(p.mode = "run" /\ ok))
                            THEN IdsOf(idx[ConcDomain][p.r]) ELSE @]

\* run_ingestion: validation, then distill, classify, chunk (in memory)
RunValidate ==
    LET p == procs.ing
        item == p.items[p.i]
    IN  /\ p.pc = "validate"
        /\ procs' = [procs EXCEPT !.ing =
                        IF RawHtmlBlank(item) THEN AfterItem(p, FALSE, index)
                        ELSE [p EXCEPT !.pc = "canon",
                                       !.chunks = ItemChunks(ConcDomain, p.r, item)]]
        /\ UNCHANGED <<storeVars, relVars, histVars>>

\* canonicalize_sections(persist=True)
RunCanonicalize ==
    LET p == procs.ing
        item == p.items[p.i]
    IN  /\ p.pc = "canon"
        /\ canonFiles' = Put(canonFiles, CanonPath(ConcDomain, p.r, item),
                             CanonContent(ConcDomain, p.r, item))
        /\ procs' = [procs EXCEPT !.ing.pc = "persist", !.ing.k = 1]
        /\ UNCHANGED <<index, chunkFiles, embFiles, relVars, histVars>>

\* persist_chunks: one chunk file per step
RunPersistChunk ==
    LET p == procs.ing
        ch == p.chunks[p.k]
    IN  /\ p.pc = "persist"
        /\ chunkFiles' = Put(chunkFiles, ChunkPath(ch.domain, ch.release_id, ch.chunk_id),
                             ChunkFileContent(ch))
        /\ procs' = [procs EXCEPT !.ing.k = IF p.k < Len(p.chunks) THEN @ + 1 ELSE 1,
                                  !.ing.pc = IF p.k < Len(p.chunks) THEN "persist" ELSE "put"]
        /\ UNCHANGED <<index, embFiles, canonFiles, relVars, histVars>>

\* attach_embeddings_for_chunks: one store.put per step
RunPutEmbedding ==
    LET p == procs.ing
        ch == p.chunks[p.k]
    IN  /\ p.pc = "put"
        /\ embFiles' = StorePut(embFiles, ch)
        /\ procs' = [procs EXCEPT !.ing.with_emb = Append(@, WithEmbeddingRef(ch)),
                                  !.ing.k = IF p.k < Len(p.chunks) THEN @ + 1 ELSE 0,
                                  !.ing.pc = IF p.k < Len(p.chunks) THEN "put"
                                             ELSE "upsert_read"]
        /\ UNCHANGED <<index, chunkFiles, canonFiles, relVars, histVars>>

\* vector_store.upsert, first half: the chunks are validated and the index file is read
RunUpsertRead ==
    LET p == procs.ing
        e == ValidateChunks(p.with_emb, ConcDomain, p.r)
    IN  /\ p.pc = "upsert_read"
        /\ procs' = [procs EXCEPT !.ing =
                        IF e # "" THEN AfterItem(p, FALSE, index)
                        ELSE [p EXCEPT !.pc = "upsert_write",
                                       !.existing = index[ConcDomain][p.r]]]
        /\ UNCHANGED <<storeVars, relVars, histVars>>

\* vector_store.upsert, second half: the rows read, with the chunks applied, are
\* written back sorted; run_ingestion returns and the item is recorded as ok
RunUpsertWrite ==
    LET p == procs.ing
        idx == [index EXCEPT ![ConcDomain][p.r] =
                   UpsertFile(p.existing, ConcDomain, p.r, p.with_emb).file]
    IN  /\ p.pc = "upsert_write"
        /\ index' = idx
        /\ procs' = [procs EXCEPT !.ing = AfterItem(p, TRUE, idx)]
        /\ UNCHANGED <<chunkFiles, embFiles, canonFiles, relVars, histVars>>

\* run_ingestion with write_release: create_release after the upsert
RunCreateRelease ==
    LET p == procs.ing
    IN  /\ p.pc = "release"
        /\ releaseDirs' = releaseDirs \cup {<<ConcDomain, p.r>>}
        /\ releaseJson' = WriteReleaseJson(releaseJson, ConcDomain, p.r, "ops",
                                           RunPayload(ConcDomain, p.r, p.items[p.i]), nops)
        /\ procs' = [procs EXCEPT !.ing.pc = "done",
                                  !.ing.final = IdsOf(index[ConcDomain][p.r])]
        /\ UNCHANGED <<storeVars, active, audit, histVars>>

\* a stage of run_ingestion raises (the embedding provider, or a file operation):
\* the run aborts where it stands and the handler records the item as failed
StageRaises ==
    LET p == procs.ing
    IN  /\ p.pc \in {"canon", "persist", "put", "upsert_read", "upsert_write"}
        /\ procs' = [procs EXCEPT !.ing = AfterItem(p, FALSE, index)]
        /\ UNCHANGED <<storeVars, relVars, histVars>>

\* the merge handler is called
StartMerge(sources, target) ==
    /\ procs.merge.pc = "idle"
    /\ procs' = [procs EXCEPT !.merge = [IdleMerge EXCEPT !.pc = "create",
                                            !.sources = sources, !.target = target]]
    /\ UNCHANGED <<storeVars, relVars, histVars>>

\* merge_releases: create_release for the target
MergeCreateRelease ==
    LET p == procs.merge
    IN  /\ p.pc = "create"
        /\ releaseDirs' = releaseDirs \cup {<<ConcDomain, p.target>>}
        /\ releaseJson' = WriteReleaseJson(releaseJson, ConcDomain, p.target, "ops",
                                           MergePayload(p.sources), nops)
        /\ procs' = [procs EXCEPT !.merge.pc = "merge"]
        /\ UNCHANGED <<storeVars, active, audit, histVars>>

\* merge_releases: _merge_releases, which raises or writes the target index
MergeRun ==
    LET p == procs.merge
        res == MergeReleases(index, chunkFiles, embFiles, canonFiles, ConcDomain,
                             p.sources, p.target)
    IN  /\ p.pc = "merge"
        /\ index' = res.index
        /\ chunkFiles' = res.chunkFiles
        /\ embFiles' = res.embFiles
        /\ canonFiles' = res.canonFiles
        /\ procs' = [procs EXCEPT !.merge.pc = IF res.error # "" THEN "failed" ELSE "done",
                                  !.merge.final = IdsOf(res.index[ConcDomain][p.target])]
        /\ UNCHANGED <<relVars, histVars>>

\* promote_release of process pr: the previous pointer is read and the directories
\* are made
PromoteRead(pr, r) ==
    /\ procs[pr].pc = "idle"
    /\ releaseDirs' = releaseDirs \cup {<<ConcDomain, r>>}
    /\ procs' = [procs EXCEPT ![pr] = [pc |-> "write", r |-> r,
                                       previous |-> GetActiveRelease(active, ConcDomain)]]
    /\ UNCHANGED <<storeVars, releaseJson, active, audit, histVars>>

\* promote_release: write_text opens active_release.txt for writing, which empties it
PromoteTruncate(pr) ==
    /\ procs[pr].pc = "write"
    /\ active' = WritePointer(active, ConcDomain, "")
    /\ procs' = [procs EXCEPT ![pr].pc = "flush"]
    /\ UNCHANGED <<storeVars, releaseJson, releaseDirs, audit, histVars>>

\* promote_release: write_text writes the id and closes the file
PromoteWrite(pr) ==
    /\ procs[pr].pc = "flush"
    /\ active' = WritePointer(active, ConcDomain, procs[pr].r)
    /\ procs' = [procs EXCEPT ![pr].pc = "audit"]
    /\ UNCHANGED <<storeVars, releaseJson, releaseDirs, audit, histVars>>

\* promote_release: the audit event is appended
PromoteAudit(pr) ==
    LET p == procs[pr]
    IN  /\ p.pc = "audit"
        /\ audit' = [audit EXCEPT ![ConcDomain] =
                        Append(@, PromoteEvent(ConcDomain, p.r, p.previous, "ops", nops))]
        /\ procs' = [procs EXCEPT ![pr].pc = "done"]
        /\ UNCHANGED <<storeVars, releaseJson, releaseDirs, active, histVars>>

\* the requests that are filling release r: a batch or run between its first step and
\* its end, a merge into r between its first step and its end
WritersOf(ps, r) ==
    {w \in {"ing"} : ps.ing.r = r /\ ps.ing.pc \notin {"idle", "done", "failed"}}
    \cup {w \in {"merge"} : ps.merge.target = r /\ ps.merge.pc \notin {"idle", "done", "failed"}}

\* RetrievalService.query: the release is resolved
RetrieveResolve(release_id) ==
    LET res == ResolveReleaseId(active, ConcDomain, release_id)
    IN  /\ procs.retrieve.pc = "idle"
        /\ procs' = [procs EXCEPT !.retrieve = [IdleRetrieve EXCEPT
                        !.pc = IF res.error # "" THEN "failed" ELSE "query",
                        !.release_arg = release_id, !.resolved = res.release_id,
                        !.error = res.error]]
        /\ UNCHANGED <<storeVars, relVars, histVars>>

\* RetrievalService.query: the query is embedded and the index of the resolved
\* release is read and ranked
RetrieveQuery ==
    LET p == procs.retrieve
        q == QueryStore(index, embFiles, ConcDomain, p.resolved, <<1, 1>>, NoFilters,
                        StoreTopK(DefaultTopK))
    IN  /\ p.pc = "query"
        /\ procs' = [procs EXCEPT !.retrieve.pc = IF q.error # "" THEN "failed" ELSE "done",
                                  !.retrieve.error = q.error,
                                  !.retrieve.results = q.rows,
                                  !.retrieve.read = IdsOf(index[ConcDomain][p.resolved]),
                                  !.retrieve.during = WritersOf(procs, p.resolved)]
        /\ UNCHANGED <<storeVars, relVars, histVars>>

NextConc ==
    \/ \E mode \in {"batch", "run"}, r \in Releases, items \in ItemLists, coe \in BOOLEAN :
          StartIngestion(mode, r, items, coe)
    \/ BatchCreateRelease
    \/ RunValidate
    \/ RunCanonicalize
    \/ RunPersistChunk
    \/ RunPutEmbedding
    \/ RunUpsertRead
    \/ RunUpsertWrite
    \/ RunCreateRelease
    \/ StageRaises
    \/ \E target \in Releases : StartMerge(<<"r1", "r2">>, target)
    \/ MergeCreateRelease
    \/ MergeRun
    \/ \E r \in Releases : PromoteRead("promote", r)
    \/ PromoteTruncate("promote")
    \/ PromoteWrite("promote")
    \/ PromoteAudit("promote")
    \/ \E r \in {"", "r1"} : RetrieveResolve(r)
    \/ RetrieveQuery

SpecConc == InitConc /\ [][NextConc]_vars

-----------------------------------------------------------------------------
(* Claims on the concurrent specification *)

\* C1: a retrieval that resolved the active release never read a strict subset of the
\* rows that release holds once the ingestion or merge that was filling it at the time
\* of the read has finished
C1_ActiveReadIsComplete ==
    LET p == procs.retrieve
    IN  (p.pc = "done" /\ p.release_arg = "") =>
            \A w \in p.during :
                procs[w].pc = "done" => ~(p.read \subseteq procs[w].final /\ p.read # procs[w].final)

\* the chunk file and the embedding file a row of the index of (d, r) references
RowFilesExist(d, r, row) ==
    /\ row.embedding_ref.scheme = "file"
    /\ row.embedding_ref.path \in DOMAIN embFiles
    /\ ChunkPath(d, r, row.chunk_id) \in DOMAIN chunkFiles
    /\ chunkFiles[ChunkPath(d, r, row.chunk_id)].chunk_id = row.chunk_id
    /\ chunkFiles[ChunkPath(d, r, row.chunk_id)].domain = row.domain
    /\ chunkFiles[ChunkPath(d, r, row.chunk_id)].release_id = row.release_id

\* C10: in every state of pipeline runs and merges, aborted runs included, each index
\* row references an embedding file that exists and a persisted chunk record with the
\* same chunk_id, domain and release_id
C10_RowsReferenceFiles ==
    \A d \in Domains, r \in Releases :
        \A j \in 1..Len(IndexRows(d, r)) : RowFilesExist(d, r, IndexRows(d, r)[j])

C10_Witness ==
    /\ procs.ing.pc = "failed"
    /\ procs.ing.results = <<TRUE, FALSE>>
    /\ procs.merge.pc = "done"
    /\ Len(IndexRows(ConcDomain, "r1")) >= 3

\* C11: every chunk file, embedding file and index row carries the domain and the
\* release_id of the path it is stored under
C11_ScopeMatchesPath ==
    /\ \A q \in DOMAIN chunkFiles :
          chunkFiles[q].domain = q.d /\ chunkFiles[q].release_id = q.r
    /\ \A q \in DOMAIN embFiles :
          embFiles[q].domain = q.d /\ embFiles[q].release_id = q.r
    /\ \A d \in Domains, r \in Releases :
          \A j \in 1..Len(IndexRows(d, r)) :
              IndexRows(d, r)[j].domain = d /\ IndexRows(d, r)[j].release_id = r

\* a merge into r1 has copied a chunk of r2, its chunk file and its embedding file
C11_Witness ==
    LET cid == ChunkId(ConcDomain, "r2", ItemB, 0)
    IN  /\ procs.merge.pc = "done"
        /\ procs.merge.target = "r1"
        /\ cid \in IdsOf(index[ConcDomain]["r1"])
        /\ ChunkPath(ConcDomain, "r1", cid) \in DOMAIN chunkFiles
        /\ EmbPath(ConcDomain, "r1", cid, EmbedChunk("t1")) \in DOMAIN embFiles
        /\ procs.ing.pc = "done" /\ procs.ing.r = "r1"

\* C12: once release.json exists for (domain, release_id) no later step changes its
\* content
C12_ReleaseRecordImmutable ==
    [][\A q \in DOMAIN releaseJson :
          q \in DOMAIN releaseJson' /\ releaseJson'[q] = releaseJson[q]]_vars

-----------------------------------------------------------------------------
(* pipeline.py and api.py: the handlers as whole calls *)

\* the files under the data roots, as a record the operators below transform
World ==
    [index |-> index, chunkFiles |-> chunkFiles, embFiles |-> embFiles,
     canonFiles |-> canonFiles, releaseJson |-> releaseJson, releaseDirs |-> releaseDirs,
     captures |-> captures]

\* persist_chunks, all chunks of a run
PersistChunks(cf, chunks) ==
    [q \in {ChunkPath(chunks[j].domain, chunks[j].release_id, chunks[j].chunk_id) :
               j \in 1..Len(chunks)} |->
        [chunk_id |-> q.cid, domain |-> q.d, release_id |-> q.r]] @@ cf

\* attach_embeddings_for_chunks, the files of all chunks of a run
RECURSIVE PutEmbeddings(_, _)
PutEmbeddings(ef, chunks) ==
    IF chunks = <<>> THEN ef ELSE PutEmbeddings(StorePut(ef, Head(chunks)), Tail(chunks))

NoCounts == [canonical_objects |-> 0, chunks |-> 0, embeddings |-> 0]

\* a run that validates raw_html only after the canonical objects and chunks are
\* persisted
RunIngestionValidatesLate(w, d, source_id, r, raw_html, write_release, raises, now) ==
    LET item == [source_id |-> source_id, raw_html |-> raw_html]
        chunks == ItemChunks(d, r, item)
    IN  IF StripStr(d) = "" \/ StripStr(source_id) = "" \/ StripStr(r) = ""
        THEN [error |-> "domain is required", world |-> w, counts |-> NoCounts]
        ELSE [error |-> IF RawHtmlBlank(item) THEN "raw_html is required"
                        ELSE "embedding provider failed",
              world |-> [w EXCEPT !.canonFiles = Put(@, CanonPath(d, r, item),
                                                     CanonContent(d, r, item)),
                                  !.chunkFiles = PersistChunks(@, chunks)],
              counts |-> NoCounts]
\* a run that writes the release record before the embeddings and the upsert
RunIngestionReleaseFirst(w, d, source_id, r, raw_html, write_release, raises, now) ==
    LET item == [source_id |-> source_id, raw_html |-> raw_html]
        chunks == ItemChunks(d, r, item)
    IN  IF StripStr(d) = "" \/ StripStr(source_id) = "" \/ StripStr(r) = ""
           \/ RawHtmlBlank(item)
        THEN [error |-> "raw_html is required", world |-> w, counts |-> NoCounts]
        ELSE [error |-> IF raises = "none" THEN "" ELSE "index write failed",
              world |-> [w EXCEPT !.canonFiles = Put(@, CanonPath(d, r, item),
                                                     CanonContent(d, r, item)),
                                  !.chunkFiles = PersistChunks(@, chunks),
                                  !.releaseDirs = @ \cup {<<d, r>>},
                                  !.releaseJson = WriteReleaseJson(@, d, r, "ops",
                                                      RunPayload(d, r, item), now)],
              counts |-> NoCounts]
\* run_ingestion: the error raised ("" when none), the files afterwards and the counts
\* returned; `raises` names the stage that fails ("none", "embed" or "upsert")
RunIngestion(w, d, source_id, r, raw_html, write_release, raises, now) ==
    LET item == [source_id |-> source_id, raw_html |-> raw_html]
        e == IF StripStr(d) = "" THEN "domain is required"
             ELSE IF StripStr(source_id) = "" THEN "source_id is required"
             ELSE IF StripStr(r) = "" THEN "release_id is required"
             ELSE IF RawHtmlBlank(item) THEN "raw_html is required"
             ELSE ""
    IN  IF e # "" THEN [error |-> e, world |-> w, counts |-> NoCounts]
        ELSE
        LET chunks == ItemChunks(d, r, item)
            w2 == [w EXCEPT !.canonFiles = Put(@, CanonPath(d, r, item),
                                               CanonContent(d, r, item)),
                            !.chunkFiles = PersistChunks(@, chunks)]
        IN  IF raises = "embed"
            THEN [error |-> "embedding provider failed", world |-> w2, counts |-> NoCounts]
            ELSE
            LET with_emb == [j \in 1..Len(chunks) |-> WithEmbeddingRef(chunks[j])]
                w3 == [w2 EXCEPT !.embFiles = PutEmbeddings(@, chunks)]
                up == UpsertFile(w3.index[d][r], d, r, with_emb)
            IN  IF up.error # "" \/ raises = "upsert"
                THEN [error |-> IF up.error # "" THEN up.error ELSE "index write failed",
                      world |-> w3, counts |-> NoCounts]
                ELSE
                LET w4 == [w3 EXCEPT !.index[d][r] = up.file]
                    w5 == IF write_release
                          THEN [w4 EXCEPT !.releaseDirs = @ \cup {<<d, r>>},
                                          !.releaseJson = WriteReleaseJson(@, d, r, "ops",
                                                              RunPayload(d, r, item), now)]
                          ELSE w4
                IN  [error |-> "", world |-> w5,
                     counts |-> [canonical_objects |-> 1, chunks |-> Len(chunks),
                                 embeddings |-> Len(with_emb)]]

\* what _fetch_url gives for a url: it raises, or returns a status and a body
Fetched(status, raw) == [raised |-> FALSE, status |-> status, raw |-> raw]
FetchRaises == [raised |-> TRUE, status |-> 0, raw |-> ""]

CapturePath(d, capture_id) == <<d, capture_id>>

\* the capture record ingestion_raw_capture saves
CaptureRecord(d, source_id, status, raw, quarantine_suspicious, now) ==
    LET capture_ok == 200 <= status /\ status < 300 /\ StripStr(raw) # ""
        quarantined == quarantine_suspicious /\ ~capture_ok
    IN  [source_id |-> source_id, domain |-> d, http_status |-> status,
         raw_html_path |-> CapturePath(d, source_id), content_hash |-> raw,
         retrieved_at |-> now, capture_ok |-> capture_ok, quarantined |-> quarantined,
         quarantine_reason |-> IF quarantined THEN "capture_failed" ELSE "",
         quarantined_at |-> -1]

\* ingestion_raw_capture: the error raised ("" when none), the capture store
\* afterwards and the record returned
RawCapture(caps, d, source_id, fetch, quarantine_suspicious, now) ==
    IF StripStr(d) = "" THEN [error |-> "domain is required", captures |-> caps]
    ELSE IF StripStr(source_id) = ""
    THEN [error |-> "source_id is required", captures |-> caps]
    ELSE IF fetch.raised THEN [error |-> "fetch failed", captures |-> caps]
    ELSE LET rec == CaptureRecord(d, source_id, fetch.status, fetch.raw,
                                  quarantine_suspicious, now)
         IN  [error |-> "",
              captures |-> [html |-> Put(caps.html, CapturePath(d, source_id), fetch.raw),
                            meta |-> Put(caps.meta, CapturePath(d, source_id), rec)],
              capture |-> rec]

\* html.escape on the texts uploaded here
HtmlEscape(text) == IF text = "<b>" THEN "&lt;b&gt;" ELSE text

\* _wrap_text_as_html
WrapTextAsHtml(text) == "<pre>" \o HtmlEscape(text) \o "</pre>"

\* the html ingestion_file_capture makes of an upload: the bytes of an html file as
\* they are, the text of any other file wrapped, "" when the file cannot be parsed
FileHtml(file) ==
    IF ~file.parses THEN ""
    ELSE IF file.ext \in {"html", "htm"} THEN file.content
    ELSE WrapTextAsHtml(file.content)

\* ingestion_file_capture: the error raised ("" when none), the capture store
\* afterwards and the record returned
FileCapture(caps, d, source_id, file, quarantine_suspicious, now) ==
    IF StripStr(d) = "" THEN [error |-> "domain is required", captures |-> caps]
    ELSE IF StripStr(source_id) = ""
    THEN [error |-> "source_id is required", captures |-> caps]
    ELSE LET raw_html == FileHtml(file)
             capture_ok == StripStr(raw_html) # ""
             quarantined == quarantine_suspicious /\ ~capture_ok
             rec == [source_id |-> source_id, domain |-> d,
                     http_status |-> IF capture_ok THEN 200 ELSE 400,
                     raw_html_path |-> CapturePath(d, source_id), content_hash |-> raw_html,
                     retrieved_at |-> now, capture_ok |-> capture_ok,
                     quarantined |-> quarantined,
                     quarantine_reason |-> IF ~quarantined THEN ""
                                           ELSE IF ~file.parses THEN "file_parse_failed"
                                           ELSE "empty_file",
                     quarantined_at |-> -1]
         IN  [error |-> "",
              captures |-> [html |-> Put(caps.html, CapturePath(d, source_id), raw_html),
                            meta |-> Put(caps.meta, CapturePath(d, source_id), rec)],
              capture |-> rec]

\* ingestion_quarantine
QuarantineCapture(caps, d, capture_id, reason, now) ==
    IF CapturePath(d, capture_id) \notin DOMAIN caps.meta
    THEN [error |-> "capture not found", captures |-> caps]
    ELSE [error |-> "",
          captures |-> [caps EXCEPT !.meta[CapturePath(d, capture_id)] =
                           [@ EXCEPT !.quarantined = TRUE,
                                     !.quarantine_reason =
                                         IF reason # "" THEN reason ELSE "manual_quarantine",
                                     !.quarantined_at = now]]]

\* what a handler hands to run_ingestion: the source, the html, and whether the html
\* came from a capture, whether that capture was quarantined, whether the request was forced
Feed(source_id, raw_html, capture_id, caps, d, force) ==
    [source_id |-> source_id, raw_html |-> raw_html, capture_id |-> capture_id,
     quarantined |-> capture_id # "" /\ caps.meta[CapturePath(d, capture_id)].quarantined,
     capture_ok |-> capture_id # "" /\ caps.meta[CapturePath(d, capture_id)].capture_ok,
     force |-> force]

\* ingestion_run, up to the call of run_ingestion: the html it settles on
RunRawHtml(caps, req) ==
    IF req.raw_html # "" THEN [error |-> "", raw_html |-> req.raw_html, capture_id |-> ""]
    ELSE IF req.capture_id = ""
    THEN [error |-> "raw_html or raw_html_path is required", raw_html |-> "", capture_id |-> ""]
    ELSE IF CapturePath(req.domain, req.capture_id) \notin DOMAIN caps.meta
    THEN [error |-> "capture not found", raw_html |-> "", capture_id |-> ""]
    ELSE LET path == caps.meta[CapturePath(req.domain, req.capture_id)].raw_html_path
         IN  IF path \notin DOMAIN caps.html
             THEN [error |-> "capture raw_html_path not found", raw_html |-> "",
                   capture_id |-> ""]
             ELSE IF caps.html[path] = ""
             THEN [error |-> "raw_html or raw_html_path is required", raw_html |-> "",
                   capture_id |-> ""]
             ELSE [error |-> "", raw_html |-> caps.html[path], capture_id |-> req.capture_id]

\* ingestion_run: the error surfaced, the files afterwards, what was fed to the pipeline
IngestionRun(w, req, raises, now) ==
    LET src == RunRawHtml(w.captures, req)
    IN  IF src.error # "" THEN [error |-> src.error, world |-> w, fed |-> <<>>]
        ELSE LET res == RunIngestion(w, req.domain, req.source_id, req.release_id,
                                     src.raw_html, TRUE, raises, now)
             IN  [error |-> res.error, world |-> res.world,
                  fed |-> <<Feed(req.source_id, src.raw_html, src.capture_id, w.captures,
                                 req.domain, FALSE)>>]

\* a loader that refuses a failed capture and lets a quarantined one through
LoadItemIgnoresQuarantine(caps, req, item) ==
    IF StripStr(item.raw_html) # ""
    THEN [error |-> "", raw_html |-> item.raw_html, capture_id |-> ""]
    ELSE IF item.capture_id = ""
    THEN [error |-> "raw_html/raw_html_path/capture_id is required", raw_html |-> "",
          capture_id |-> ""]
    ELSE IF CapturePath(req.domain, item.capture_id) \notin DOMAIN caps.meta
    THEN [error |-> "capture not found", raw_html |-> "", capture_id |-> ""]
    ELSE LET meta == caps.meta[CapturePath(req.domain, item.capture_id)]
         IN  IF meta.raw_html_path \notin DOMAIN caps.html
             THEN [error |-> "capture raw_html_path not found", raw_html |-> "",
                   capture_id |-> ""]
             ELSE IF ~req.force /\ ~meta.capture_ok
             THEN [error |-> "capture not usable", raw_html |-> "", capture_id |-> ""]
             ELSE [error |-> "", raw_html |-> caps.html[meta.raw_html_path],
                   capture_id |-> item.capture_id]

\* _load_item_raw_html of ingestion_run_batch: the html of an item, or the error raised
LoadItemRawHtml(caps, req, item) ==
    IF StripStr(item.raw_html) # ""
    THEN [error |-> "", raw_html |-> item.raw_html, capture_id |-> ""]
    ELSE IF item.capture_id = ""
    THEN [error |-> "raw_html/raw_html_path/capture_id is required", raw_html |-> "",
          capture_id |-> ""]
    ELSE IF CapturePath(req.domain, item.capture_id) \notin DOMAIN caps.meta
    THEN [error |-> "capture not found", raw_html |-> "", capture_id |-> ""]
    ELSE LET meta == caps.meta[CapturePath(req.domain, item.capture_id)]
         IN  IF meta.raw_html_path \notin DOMAIN caps.html
             THEN [error |-> "capture raw_html_path not found", raw_html |-> "",
                   capture_id |-> ""]
             ELSE IF ~req.force /\ (meta.quarantined \/ ~meta.capture_ok)
             THEN [error |-> "capture not usable", raw_html |-> "", capture_id |-> ""]
             ELSE [error |-> "", raw_html |-> caps.html[meta.raw_html_path],
                   capture_id |-> item.capture_id]

\* the check ingestion_ingest_batch makes on the capture it has just taken: unless the
\* request is forced, a capture that failed or is quarantined is refused
CaptureUsable(caps, req, item, cap) ==
    IF cap.error # ""
    THEN [error |-> cap.error, raw_html |-> "", capture_id |-> "", captures |-> caps]
    ELSE IF ~req.force /\ (~cap.capture.capture_ok \/ cap.capture.quarantined)
    THEN [error |-> "capture not usable", raw_html |-> "", capture_id |-> "",
          captures |-> cap.captures]
    ELSE [error |-> "", raw_html |-> cap.captures.html[cap.capture.raw_html_path],
          capture_id |-> item.source_id, captures |-> cap.captures]

\* one item of ingestion_ingest_batch up to the call of run_ingestion: the capture is
\* taken, then checked
CaptureItem(caps, req, item, now) ==
    CaptureUsable(caps, req, item,
                  RawCapture(caps, req.domain, item.source_id, item.fetch,
                             item.quarantine_suspicious, now))

\* the state of a batch handler before its first item
BatchStart(w) ==
    [world |-> w, results |-> <<>>, counts |-> NoCounts, succeeded |-> 0,
     fed |-> <<>>, processed |-> <<>>, raised |-> ""]

\* an aggregation that keeps the counts of the latest item only
AddCountsLatestOnly(a, b) == b
\* the aggregation of run_result.counts into agg_counts, field by field
AddCounts(a, b) ==
    [canonical_objects |-> a.canonical_objects + b.canonical_objects,
     chunks |-> a.chunks + b.chunks, embeddings |-> a.embeddings + b.embeddings]

\* where an item's html comes from: its capture in ingestion_ingest_batch
\* (capturing = TRUE), _load_item_raw_html in ingestion_run_batch (capturing = FALSE)
BatchSource(caps, req, capturing, item, now) ==
    IF capturing THEN CaptureItem(caps, req, item, now)
    ELSE LoadItemRawHtml(caps, req, item) @@ [captures |-> caps]

\* the end of one pass of the item loop: the result appended, the counts aggregated,
\* and the exception raised when the item failed and continue_on_error is false
BatchRecord(st, req, i, src, run) ==
    LET item == req.items[i]
        ok == run.error = ""
    IN  [world |-> run.world,
         results |-> Append(st.results,
                            [source_id |-> item.source_id, ok |-> ok, counts |-> run.counts]),
         counts |-> IF ok THEN AddCounts(st.counts, run.counts) ELSE st.counts,
         succeeded |-> IF ok THEN st.succeeded + 1 ELSE st.succeeded,
         fed |-> IF src.error # "" THEN st.fed
                 ELSE Append(st.fed, Feed(item.source_id, src.raw_html, src.capture_id,
                                          src.captures, req.domain, req.force)),
         processed |-> Append(st.processed, i),
         raised |-> IF ~ok /\ ~req.continue_on_error THEN run.error ELSE ""]

\* the try block of one pass, given where the html comes from: run_ingestion with
\* write_release = False unless getting the html raised
BatchStep(st, req, i, src, now) ==
    BatchRecord(st, req, i, src,
                IF src.error # ""
                THEN [error |-> src.error,
                      world |-> [st.world EXCEPT !.captures = src.captures],
                      counts |-> NoCounts]
                ELSE RunIngestion([st.world EXCEPT !.captures = src.captures], req.domain,
                                  req.items[i].source_id, req.release_id, src.raw_html,
                                  FALSE, req.items[i].raises, now))

\* one pass of the item loop of ingestion_run_batch or ingestion_ingest_batch, on item i
BatchItem(st, req, capturing, i, now) ==
    BatchStep(st, req, i,
              BatchSource(st.world.captures, req, capturing, req.items[i], now), now)

\* a loop that goes on to the next item whatever happened to this one
RECURSIVE BatchLoopNeverStops(_, _, _, _, _)
BatchLoopNeverStops(st, req, capturing, i, now) ==
    IF i > Len(req.items) THEN st
    ELSE BatchLoopNeverStops(BatchItem(st, req, capturing, i, now), req, capturing, i + 1, now)

\* the item loop: it ends after the last item, or at the item that raised
RECURSIVE BatchLoop(_, _, _, _, _)
BatchLoop(st, req, capturing, i, now) ==
    IF i > Len(req.items) \/ st.raised # "" THEN st
    ELSE BatchLoop(BatchItem(st, req, capturing, i, now), req, capturing, i + 1, now)

\* the status the handler records when it returns
BatchStatus(succeeded, total) ==
    IF succeeded = total THEN "success" ELSE IF succeeded = 0 THEN "failed" ELSE "partial"

\* the end of a batch handler: the exception of the item that raised, or the response
\* with its summary, and the status recorded
BatchResponse(st, req) ==
    IF st.raised # ""
    THEN st @@ [returned |-> FALSE, summary |-> <<>>, status |-> "", error |-> st.raised]
    ELSE st @@ [returned |-> TRUE, error |-> "",
                summary |-> [total |-> Len(req.items), succeeded |-> st.succeeded,
                             failed |-> Len(req.items) - st.succeeded,
                             counts |-> st.counts],
                status |-> BatchStatus(st.succeeded, Len(req.items))]

\* ingestion_run_batch and ingestion_ingest_batch: the files afterwards, and either the
\* error raised or the response returned
IngestionBatch(w, req, capturing, now) ==
    IF StripStr(req.domain) = "" \/ req.items = <<>>
    THEN BatchStart(w) @@ [returned |-> FALSE, summary |-> <<>>, status |-> "",
                           error |-> IF StripStr(req.domain) = "" THEN "domain is required"
                                     ELSE "items is required"]
    ELSE BatchResponse(
             BatchLoop(BatchStart(
                           [w EXCEPT !.releaseDirs = @ \cup {<<req.domain, req.release_id>>},
                                     !.releaseJson = WriteReleaseJson(@, req.domain,
                                                         req.release_id, "ops",
                                                         IF capturing
                                                         THEN [mode |-> "capture+run"]
                                                         ELSE BatchPayload, now)]),
                       req, capturing, 1, now),
             req)

\* a merge handler that creates the target's release record before it validates
MergeHandlerCreatesFirst(w, d, source_release_ids, target, now) ==
    LET stripped == [j \in 1..Len(source_release_ids) |-> StripStr(source_release_ids[j])]
        sources == SelectSeq(stripped, LAMBDA x : x # "")
        w0 == [w EXCEPT !.releaseDirs = @ \cup {<<d, target>>},
                        !.releaseJson = WriteReleaseJson(@, d, target, "ops",
                                            MergePayload(sources), now)]
    IN  IF Len(sources) < 2
        THEN [error |-> "source_release_ids must include at least two releases",
              world |-> w0, sources |-> sources]
        ELSE [error |-> "", world |-> w0, sources |-> sources, rows_written |-> 0,
              duplicates_skipped |-> 0]
\* merge_releases, the handler: validation, create_release for the target, then
\* _merge_releases
MergeHandler(w, d, source_release_ids, target, now) ==
    LET stripped == [j \in 1..Len(source_release_ids) |-> StripStr(source_release_ids[j])]
        sources == SelectSeq(stripped, LAMBDA x : x # "")
    IN  IF StripStr(d) = ""
        THEN [error |-> "domain is required", world |-> w, sources |-> sources]
        ELSE IF Len(sources) < 2
        THEN [error |-> "source_release_ids must include at least two releases",
              world |-> w, sources |-> sources]
        ELSE LET w0 == [w EXCEPT !.releaseDirs = @ \cup {<<d, target>>},
                                 !.releaseJson = WriteReleaseJson(@, d, target, "ops",
                                                     MergePayload(sources), now)]
                 res == MergeReleases(w0.index, w0.chunkFiles, w0.embFiles, w0.canonFiles,
                                      d, sources, target)
             IN  [error |-> res.error,
                  world |-> [w0 EXCEPT !.index = res.index, !.chunkFiles = res.chunkFiles,
                                       !.embFiles = res.embFiles,
                                       !.canonFiles = res.canonFiles],
                  sources |-> sources, rows_written |-> res.rows_written,
                  duplicates_skipped |-> res.duplicates_skipped]

-----------------------------------------------------------------------------
(* The handler specification: every handler as one call, one after another *)

MaxApiOps == 2

\* the files of a store w, as an initial state
SetWorldInit(w) ==
    /\ index = w.index
    /\ chunkFiles = w.chunkFiles
    /\ embFiles = w.embFiles
    /\ canonFiles = w.canonFiles
    /\ releaseJson = w.releaseJson
    /\ releaseDirs = w.releaseDirs
    /\ captures = w.captures

\* the files after a call
SetWorld(w) ==
    /\ index' = w.index
    /\ chunkFiles' = w.chunkFiles
    /\ embFiles' = w.embFiles
    /\ canonFiles' = w.canonFiles
    /\ releaseJson' = w.releaseJson
    /\ releaseDirs' = w.releaseDirs
    /\ captures' = w.captures

FetchResults == { Fetched(200, "hA"), Fetched(200, " "), Fetched(500, "hB"), FetchRaises }

\* an item of a batch request; raises names the pipeline stage that fails for it
BatchItemOf(source_id, raw_html, capture_id, raises, fetch) ==
    [source_id |-> source_id, raw_html |-> raw_html, capture_id |-> capture_id,
     raises |-> raises, fetch |-> fetch, quarantine_suspicious |-> TRUE]

RunBatchItems ==
    LET a == BatchItemOf("sA", "hA", "", "none", FetchRaises)
        b == BatchItemOf("sB", "hB", "", "none", FetchRaises)
        blank == BatchItemOf("sB", " ", "", "none", FetchRaises)
        araise == BatchItemOf("sA", "hA", "", "embed", FetchRaises)
        cap == BatchItemOf("sA", "", "sA", "none", FetchRaises)
    IN  { <<a, b>>, <<blank, a>>, <<araise, b>>, <<cap>>, <<a, blank, cap>>, <<>> }

IngestBatchItems ==
    LET a == BatchItemOf("sA", "", "", "none", Fetched(200, "hA"))
        b == BatchItemOf("sB", "", "", "none", Fetched(200, "hB"))
        bad == BatchItemOf("sB", "", "", "none", Fetched(500, "hB"))
        down == BatchItemOf("sA", "", "", "none", FetchRaises)
        araise == BatchItemOf("sA", "", "", "upsert", Fetched(200, "hA"))
    IN  { <<a, b>>, <<bad, a>>, <<down, b>>, <<araise, b>>, <<a, bad, b>> }

RunRequests ==
    { [domain |-> ConcDomain, source_id |-> "sA", release_id |-> r, raw_html |-> h,
       capture_id |-> c] :
        r \in Releases, h \in {"hA", ""}, c \in {"", "sA"} }

ApiRawCapture(d, source_id, fetch, quarantine_suspicious) ==
    LET res == RawCapture(captures, d, source_id, fetch, quarantine_suspicious, nops)
    IN  /\ captures' = res.captures
        /\ last' = [op |-> "raw_capture", d |-> d, source_id |-> source_id,
                    fetch |-> fetch, error |-> res.error]
        /\ UNCHANGED <<storeVars, relVars, written, procs, env, obs>>

ApiQuarantine(d, capture_id, reason) ==
    LET res == QuarantineCapture(captures, d, capture_id, reason, nops)
    IN  /\ captures' = res.captures
        /\ last' = [op |-> "quarantine", d |-> d, capture_id |-> capture_id,
                    error |-> res.error]
        /\ UNCHANGED <<storeVars, relVars, written, procs, env, obs>>

ApiIngestionRun(req, raises) ==
    LET res == IngestionRun(World, req, raises, nops)
    IN  /\ SetWorld(res.world)
        /\ last' = [op |-> "run", req |-> req, raises |-> raises, error |-> res.error,
                    fed |-> res.fed]
        /\ UNCHANGED <<active, audit, written, procs, env, obs>>

ApiIngestionBatch(req, capturing) ==
    \E res \in {IngestionBatch(World, req, capturing, nops)} :
        /\ SetWorld(res.world)
        /\ last' = [op |-> "batch", req |-> req, capturing |-> capturing,
                    res |-> [res EXCEPT !.world = <<>>], fed |-> res.fed]
        /\ UNCHANGED <<active, audit, written, procs, env, obs>>

ApiMerge(d, sources, target) ==
    LET res == MergeHandler(World, d, sources, target, nops)
    IN  /\ SetWorld(res.world)
        /\ last' = [op |-> "merge", d |-> d, sources |-> sources, target |-> target,
                    error |-> res.error]
        /\ UNCHANGED <<active, audit, written, procs, env, obs>>

CountedApi == nops < MaxApiOps /\ nops' = nops + 1

NextApi ==
    \/ \E sid \in {"sA", "sB"}, f \in FetchResults, qs \in BOOLEAN :
          CountedApi /\ ApiRawCapture(ConcDomain, sid, f, qs)
    \/ \E cid \in {"sA", "sB"} : CountedApi /\ ApiQuarantine(ConcDomain, cid, "")
    \/ \E req \in RunRequests, raises \in {"none", "embed"} :
          CountedApi /\ ApiIngestionRun(req, raises)
    \/ \E r \in Releases, items \in RunBatchItems, coe \in BOOLEAN, force \in BOOLEAN :
          CountedApi /\ ApiIngestionBatch([domain |-> ConcDomain, release_id |-> r,
                                           continue_on_error |-> coe, force |-> force,
                                           items |-> items], FALSE)
    \/ \E r \in Releases, items \in IngestBatchItems, coe \in BOOLEAN, force \in BOOLEAN :
          CountedApi /\ ApiIngestionBatch([domain |-> ConcDomain, release_id |-> r,
                                           continue_on_error |-> coe, force |-> force,
                                           items |-> items], TRUE)
    \/ \E src \in SourceLists \cup {<<"r1", "  ">>}, target \in Releases :
          CountedApi /\ ApiMerge(ConcDomain, src, target)
    \/ \E d \in Domains, r \in Releases : CountedApi /\ CreateRelease(d, r, "ops")
    \/ \E d \in Domains, r \in Releases : CountedApi /\ PromoteRelease(d, r, "ops")
    \/ \E r \in Releases \cup {""} :
          Retrieve(ConcDomain, <<1>>, NoFilters, 2, r) /\ UNCHANGED nops

SpecApi == InitConc /\ [][NextApi]_vars

-----------------------------------------------------------------------------
(* Claims on the handler specification *)

\* C13: a step changes the active-release pointer of a domain only if it is
\* promote_release on that domain; every other handler, and promote_release on another
\* domain, leaves it as it was
C13_PointerChangedOnlyByPromote ==
    [][active' # active =>
          /\ last'.op = "promote"
          /\ \A d \in Domains \ {last'.d} : active'[d] = active[d]]_vars

\* a promotion on d1 while d2 has a pointer of its own
C13_Witness ==
    /\ last.op = "promote" /\ last.d = "d1" /\ last.error = ""
    /\ active["d1"] = "r1"
    /\ active["d2"] = "r2"

\* C15: a second run_ingestion with the same domain, source_id, release_id and raw_html
\* right after a successful first one leaves every file with the content it had and
\* adds no file
C15_RerunIdempotent ==
    [][(/\ last.op = "run" /\ last'.op = "run"
        /\ last.error = "" /\ last'.error = ""
        /\ last'.req = last.req) => World' = World]_vars

\* the artifacts of release r of domain d: its index, its chunk and embedding files
\* and its release record
ArtifactsOf(w, d, r) ==
    [index |-> w.index[d][r],
     chunks |-> [q \in {x \in DOMAIN w.chunkFiles : x.d = d /\ x.r = r} |-> w.chunkFiles[q]],
     embeddings |-> [q \in {x \in DOMAIN w.embFiles : x.d = d /\ x.r = r} |-> w.embFiles[q]],
     release |-> IF <<d, r>> \in DOMAIN w.releaseJson THEN <<w.releaseJson[<<d, r>>]>>
                 ELSE <<>>]

\* C17: a merge leaves the index, the chunk files, the embedding files and the release
\* record of each of its source releases as they were, whatever target it is given
C17_MergeLeavesSources ==
    [][last'.op = "merge" =>
          \A s \in {x \in Releases : \E i \in 1..Len(last'.sources) :
                                         StripStr(last'.sources[i]) = x} :
              ArtifactsOf(World', last'.d, s) = ArtifactsOf(World, last'.d, s)]_vars

\* the sum of one field of the counts of the results with ok = true
RECURSIVE SumOk(_, _)
SumOk(results, field) ==
    IF results = <<>> THEN 0
    ELSE (IF Head(results).ok THEN Head(results).counts[field] ELSE 0)
         + SumOk(Tail(results), field)

\* C18: when a batch handler returns, results has one entry per item in input order,
\* succeeded + failed = total = number of items, counts is the field-wise sum over the
\* items with ok = true, and the status is success when all items succeeded, failed
\* when none did, partial otherwise
C18_BatchSummary ==
    (last.op = "batch" /\ last.res.returned) =>
        LET items == last.req.items
            res == last.res
            oks == {i \in 1..Len(res.results) : res.results[i].ok}
        IN  /\ Len(res.results) = Len(items)
            /\ \A i \in 1..Len(items) : res.results[i].source_id = items[i].source_id
            /\ res.summary.total = Len(items)
            /\ res.summary.succeeded + res.summary.failed = res.summary.total
            /\ res.summary.succeeded = Cardinality(oks)
            /\ \A f \in DOMAIN NoCounts : res.summary.counts[f] = SumOk(res.results, f)
            /\ (res.status = "success") <=> (Cardinality(oks) = Len(items))
            /\ (res.status = "failed") <=> (oks = {})
            /\ (res.status = "partial") <=> (oks # {} /\ Cardinality(oks) < Len(items))

\* a batch of three items returned with two of them ingested and one failed
C18_Witness ==
    /\ last.op = "batch" /\ last.res.returned
    /\ Len(last.res.results) = 3
    /\ last.res.summary.succeeded = 2
    /\ last.res.status = "partial"
    /\ last.res.summary.counts.chunks > 2

\* C19: with continue_on_error = false a batch stops at its first failing item: the
\* failure is surfaced, the items before it succeeded, and the files are those that the
\* items up to the failing one leave, so no later item is captured, ingested or
\* recorded; with continue_on_error = true every item is processed once, in input order
C19_StopOrContinue ==
    [][(last'.op = "batch" /\ last'.req.items # <<>>) =>
          LET req == last'.req
              res == last'.res
              k == Len(res.results)
              fails == \E i \in 1..k : ~res.results[i].ok
          IN  IF req.continue_on_error
              THEN /\ res.returned
                   /\ res.processed = [i \in 1..Len(req.items) |-> i]
                   /\ k = Len(req.items)
              ELSE /\ res.returned <=> ~fails
                   /\ res.processed = [i \in 1..k |-> i]
                   /\ \A i \in 1..(k - 1) : res.results[i].ok
                   /\ fails =>
                        /\ res.error # ""
                        /\ World' = IngestionBatch(World,
                                        [req EXCEPT !.items = SubSeq(req.items, 1, k)],
                                        last'.capturing, nops).world
                        /\ \A i \in 1..Len(res.fed) : \E j \in 1..k :
                              res.fed[i].source_id = req.items[j].source_id]_vars

\* a batch of three items without continue_on_error whose second item failed
C19_Witness ==
    /\ last.op = "batch" /\ ~last.req.continue_on_error
    /\ Len(last.req.items) = 3
    /\ ~last.res.returned /\ last.res.error # ""
    /\ Len(last.res.results) = 2
    /\ last.res.results[1].ok /\ ~last.res.results[2].ok

\* C20: whatever a handler feeds to the pipeline from a capture whose record is
\* quarantined, it feeds only on a forced request; this covers the single run given a
\* capture_id, batch-run items given a capture_id and capture+ingest batch items
C20_QuarantineRespected ==
    last.op \in {"run", "batch"} =>
        \A i \in 1..Len(last.fed) :
            (last.fed[i].capture_id # "" /\ last.fed[i].quarantined) => last.fed[i].force

-----------------------------------------------------------------------------
(* The promotion specification: release r2 of ConcDomain is active; two promotions
   and a retrieval run, their steps interleaved *)

EmptyWorld ==
    [index |-> [d \in Domains |-> [r \in Releases |-> NoFile]],
     chunkFiles |-> [q \in {} |-> <<>>], embFiles |-> [q \in {} |-> <<>>],
     canonFiles |-> [q \in {} |-> <<>>], releaseJson |-> [q \in {} |-> <<>>],
     releaseDirs |-> {}, captures |-> NoCaptures]

\* the state after run_ingestion of ItemB into release r2 and promote_release of r2
InitPromote ==
    LET w == RunIngestion(EmptyWorld, ConcDomain, ItemB.source_id, "r2", ItemB.raw_html,
                          TRUE, "none", 0).world
    IN  /\ index = w.index
        /\ chunkFiles = w.chunkFiles
        /\ embFiles = w.embFiles
        /\ canonFiles = w.canonFiles
        /\ releaseJson = w.releaseJson
        /\ releaseDirs = w.releaseDirs
        /\ captures = w.captures
        /\ env = DefaultEnv
        /\ obs = NoObs
        /\ active = WritePointer([x \in Domains |-> ""], ConcDomain, "r2")
        /\ audit = [x \in Domains |-> IF x = ConcDomain
                                      THEN <<PromoteEvent(x, "r2", "", "ops", 0)>> ELSE <<>>]
        /\ last = [op |-> "none"]
        /\ written = {}
        /\ nops = 0
        /\ procs = [ing |-> IdleIngestion, merge |-> IdleMerge, promote |-> IdlePromote,
                    promote2 |-> IdlePromote, retrieve |-> IdleRetrieve]

NextPromote ==
    \/ \E pr \in {"promote", "promote2"}, r \in Releases : PromoteRead(pr, r)
    \/ \E pr \in {"promote", "promote2"} : PromoteTruncate(pr)
    \/ \E pr \in {"promote", "promote2"} : PromoteWrite(pr)
    \/ \E pr \in {"promote", "promote2"} : PromoteAudit(pr)
    \/ \E r \in {"", "r2"} : RetrieveResolve(r)
    \/ RetrieveQuery

SpecPromote == InitPromote /\ [][NextPromote]_vars

\* C14: a read of the active pointer that runs while a promotion is in progress gets a
\* release id that was or becomes active, never an absent or empty one, so a retrieval
\* without release_id does not fail with NotFound
C14_ReaderSeesOldOrNew ==
    LET p == procs.retrieve
    IN  (p.pc # "idle" /\ p.release_arg = "") =>
            p.error # "NotFound" /\ p.resolved \in Releases

\* C38: after two overlapping promote_release calls on one domain have both returned,
\* get_active_release(d) equals the release_id of the newest audit event,
\* list_audit(d)[0], whatever the interleaving of their pointer writes and audit appends
C38_ActiveIsNewestAudit ==
    (procs.promote.pc = "done" /\ procs.promote2.pc = "done") =>
        GetActiveRelease(active, ConcDomain)
            = ListAudit(audit, ConcDomain, AuditLimit)[1].release_id

-----------------------------------------------------------------------------
(* The capture specification: captures are taken, quarantined and ingested *)

MaxCaptureOps == 3

Uploads ==
    { [ext |-> "html", content |-> "hA", parses |-> TRUE],
      [ext |-> "html", content |-> " ", parses |-> TRUE],
      [ext |-> "txt", content |-> "<b>", parses |-> TRUE],
      [ext |-> "docx", content |-> "", parses |-> FALSE] }

CaptureBatchItems ==
    LET b == BatchItemOf("sB", "hB", "", "none", FetchRaises)
        cap == BatchItemOf("sA", "", "sA", "none", FetchRaises)
        both == BatchItemOf("sA", "hA", "sA", "none", FetchRaises)
    IN  { <<cap>>, <<b, cap>>, <<both>> }

ApiFileCapture(d, source_id, file, quarantine_suspicious) ==
    \E res \in {FileCapture(captures, d, source_id, file, quarantine_suspicious, nops)} :
        /\ captures' = res.captures
        /\ last' = [op |-> "file_capture", d |-> d, source_id |-> source_id,
                    file |-> file, error |-> res.error]
        /\ UNCHANGED <<storeVars, relVars, written, procs, env, obs>>

CountedCapture == nops < MaxCaptureOps /\ nops' = nops + 1

NextCapture ==
    \/ \E f \in FetchResults, qs \in BOOLEAN :
          CountedCapture /\ ApiRawCapture(ConcDomain, "sA", f, qs)
    \/ \E f \in Uploads, qs \in BOOLEAN :
          CountedCapture /\ ApiFileCapture(ConcDomain, "sA", f, qs)
    \/ CountedCapture /\ ApiQuarantine(ConcDomain, "sA", "")
    \/ CountedCapture /\ ApiIngestionRun([domain |-> ConcDomain, source_id |-> "sA",
                                          release_id |-> "r1", raw_html |-> "",
                                          capture_id |-> "sA"], "none")
    \/ \E items \in CaptureBatchItems, coe \in BOOLEAN, force \in BOOLEAN :
          CountedCapture /\ ApiIngestionBatch([domain |-> ConcDomain, release_id |-> "r1",
                                               continue_on_error |-> coe, force |-> force,
                                               items |-> items], FALSE)

SpecCapture == InitConc /\ [][NextCapture]_vars

\* an item of a batch run whose html is looked up through its capture id
ThroughCapture(item) == StripStr(item.raw_html) = "" /\ item.capture_id # ""

\* the capture an item names exists, succeeded and is not quarantined
UsableCapture(caps, d, item) ==
    /\ CapturePath(d, item.capture_id) \in DOMAIN caps.meta
    /\ caps.meta[CapturePath(d, item.capture_id)].capture_ok
    /\ ~caps.meta[CapturePath(d, item.capture_id)].quarantined

\* C21: in a batch run that is not forced, an item looked up through a capture id
\* reaches the pipeline only if the capture has capture_ok and is not quarantined;
\* otherwise its result has ok = false, and a batch of such items alone leaves the
\* canonical, chunk, embedding and index files as they were
C21_UnforcedCaptureGate ==
    [][(last'.op = "batch" /\ ~last'.capturing /\ ~last'.req.force) =>
          LET req == last'.req
              res == last'.res
              bad == {i \in 1..Len(res.results) :
                         /\ ThroughCapture(req.items[i])
                         /\ ~UsableCapture(captures, req.domain, req.items[i])}
          IN  /\ \A i \in bad : ~res.results[i].ok
              /\ \A j \in 1..Len(res.fed) :
                    res.fed[j].capture_id # "" =>
                        res.fed[j].capture_ok /\ ~res.fed[j].quarantined
              /\ (res.results # <<>> /\ bad = 1..Len(res.results)) =>
                    (res.fed = <<>> /\ storeVars' = storeVars)]_vars

\* an unforced batch run whose capture item names a capture that succeeded and was
\* quarantined afterwards: the item failed
C21_Witness ==
    /\ last.op = "batch" /\ ~last.capturing /\ ~last.req.force
    /\ last.req.items[1].capture_id = "sA" /\ last.req.items[1].raw_html = ""
    /\ CapturePath(ConcDomain, "sA") \in DOMAIN captures.meta
    /\ captures.meta[CapturePath(ConcDomain, "sA")].capture_ok
    /\ captures.meta[CapturePath(ConcDomain, "sA")].quarantined
    /\ ~last.res.results[1].ok

\* C22: once the record of a capture has quarantined = true, it has it after every
\* later operation, a new raw capture or file capture of the same source included
C22_QuarantineSticks ==
    [][\A q \in DOMAIN captures.meta :
          captures.meta[q].quarantined =>
              (q \in DOMAIN captures'.meta /\ captures'.meta[q].quarantined)]_vars

-----------------------------------------------------------------------------
(* env.py: the embedding providers, and the specification of their selection *)

\* str.strip().lower() on the values the environment takes here
StripLower(v) ==
    CASE v = "  " -> ""
      [] v = " Deterministic " -> "deterministic"
      [] v = "DETERMINISTIC" -> "deterministic"
      [] v = " Ollama " -> "ollama"
      [] v = "Mxbai-Embed-Large" -> "mxbai-embed-large"
      [] OTHER -> v

\* get_ingestion_embed_provider
GetIngestionEmbedProvider(e) ==
    LET model == StripLower(Getenv(e, "OLLAMA_EMBED_MODEL"))
    IN  IF model = "deterministic" THEN "deterministic" ELSE "ollama"

\* get_retrieval_embed_provider
GetRetrievalEmbedProvider(e) ==
    LET raw == StripLower(Getenv(e, "RETRIEVAL_EMBED_PROVIDER"))
        model == StripLower(Getenv(e, "OLLAMA_EMBED_MODEL"))
    IN  IF raw # "" THEN raw
        ELSE IF model # "" /\ model # "deterministic" THEN "ollama"
        ELSE "deterministic"

\* the warnings RetrievalService.query returns
ProviderWarnings(e) ==
    IF GetIngestionEmbedProvider(e) # GetRetrievalEmbedProvider(e)
    THEN <<"Embedding provider mismatch">> ELSE <<>>

ModelSettings ==
    {Unset} \cup {Setting(v) : v \in {"", "  ", "deterministic", " Deterministic ",
                                      "DETERMINISTIC", "mxbai-embed-large",
                                      "Mxbai-Embed-Large"}}

ProviderSettings ==
    {Unset} \cup {Setting(v) : v \in {"", "ollama", " Ollama ", "deterministic"}}

\* an empty store, and a process started in any of the environments above
InitEnv ==
    /\ SetWorldInit(EmptyWorld)
    /\ env \in [OLLAMA_EMBED_MODEL : ModelSettings, RETRIEVAL_EMBED_PROVIDER : ProviderSettings]
    /\ obs = NoObs
    /\ active = [d \in Domains |-> ""]
    /\ audit = [d \in Domains |-> <<>>]
    /\ last = [op |-> "none"]
    /\ written = {}
    /\ nops = 0
    /\ procs = <<>>

\* _build_ingestion_embedder, as run_ingestion calls it: the provider it picks
BuildIngestionEmbedder ==
    /\ last' = [op |-> "build_ingestion_embedder",
                provider |-> GetIngestionEmbedProvider(env)]
    /\ UNCHANGED <<storeVars, relVars, written, nops, procs, captures, env, obs>>

\* the end of RetrievalService.query: the two provider names and the warnings
RetrievalWarnings ==
    /\ last' = [op |-> "retrieval_warnings",
                ingestion_provider |-> GetIngestionEmbedProvider(env),
                retrieval_provider |-> GetRetrievalEmbedProvider(env),
                warnings |-> ProviderWarnings(env)]
    /\ UNCHANGED <<storeVars, relVars, written, nops, procs, captures, env, obs>>

NextEnv == BuildIngestionEmbedder \/ RetrievalWarnings

SpecEnv == InitEnv /\ [][NextEnv]_vars

\* the embedding-model variable is set to a non-blank value other than deterministic
ModelNamed(e) ==
    /\ e["OLLAMA_EMBED_MODEL"].set
    /\ StripLower(e["OLLAMA_EMBED_MODEL"].value) \notin {"", "deterministic"}

\* C24: the ingestion provider is ollama exactly when the embedding-model variable is
\* set to a non-blank value other than deterministic, deterministic otherwise; with
\* RETRIEVAL_EMBED_PROVIDER unset the retrieval provider is the same and retrieval
\* returns no mismatch warning
C24_ProviderSelection ==
    /\ last.op = "build_ingestion_embedder" =>
          last.provider = IF ModelNamed(env) THEN "ollama" ELSE "deterministic"
    /\ (last.op = "retrieval_warnings" /\ ~env["RETRIEVAL_EMBED_PROVIDER"].set) =>
          /\ last.ingestion_provider = IF ModelNamed(env) THEN "ollama" ELSE "deterministic"
          /\ last.retrieval_provider = last.ingestion_provider
          /\ last.warnings = <<>>

-----------------------------------------------------------------------------
(* chunker.py: texts are sequences of character codes, 0 any whitespace, 1 a  *)
(* letter, 2 a full stop                                                      *)

FullStop == 2

\* _SENTENCE_SPLIT_RE.split(t): t is cut at every run of whitespace that follows a
\* sentence terminator; the run is dropped
RECURSIVE SentenceSplit(_)
SentenceSplit(t) ==
    LET cuts == {i \in 1..(Len(t) - 1) : t[i] = FullStop /\ t[i + 1] = 0}
    IN  IF cuts = {} THEN <<t>>
        ELSE LET i == CHOOSE c \in cuts : \A c2 \in cuts : c <= c2
                 rest == {j \in (i + 1)..Len(t) : t[j] # 0}
                 j == IF rest = {} THEN Len(t) + 1
                      ELSE CHOOSE c \in rest : \A c2 \in rest : c <= c2
             IN  <<SubSeq(t, 1, i)>> \o SentenceSplit(SubSeq(t, j, Len(t)))

\* the stripped, non-blank members of a list of strings
StrippedNonBlank(strs) ==
    SelectSeq([k \in 1..Len(strs) |-> Strip(strs[k])], LAMBDA x : x # <<>>)

\* "".join(cur)
RECURSIVE Concat(_)
Concat(strs) == IF strs = <<>> THEN <<>> ELSE Head(strs) \o Concat(Tail(strs))

\* [t[i : i + max_chars].strip() for i in range(0, len(t), max_chars) if ...]
HardSplit(t, max_chars) ==
    LET n == (Len(t) + max_chars - 1) \div max_chars
        piece(k) == SubSeq(t, (k - 1) * max_chars + 1,
                           IF k * max_chars < Len(t) THEN k * max_chars ELSE Len(t))
    IN  StrippedNonBlank([k \in 1..n |-> piece(k)])

\* the sentence loop of _split_long_paragraph: cur is the list of pieces of the part
\* being built, cur_len their total length
RECURSIVE PackSentences(_, _, _, _, _)
PackSentences(sentences, cur, cur_len, parts, max_chars) ==
    LET joined == Strip(Concat(cur))
    IN  IF sentences = <<>>
        THEN IF cur # <<>> THEN Append(parts, joined) ELSE parts
        ELSE LET sent == Head(sentences)
                 add == (IF cur # <<>> THEN <<0>> ELSE <<>>) \o sent
             IN  IF cur # <<>> /\ cur_len + Len(add) > max_chars
                 THEN PackSentences(Tail(sentences), <<sent>>, Len(sent),
                                    Append(parts, joined), max_chars)
                 ELSE PackSentences(Tail(sentences), Append(cur, add),
                                    cur_len + Len(add), parts, max_chars)

\* the last loop of _split_long_paragraph: a part longer than max_chars is cut
RECURSIVE SplitParts(_, _)
SplitParts(parts, max_chars) ==
    IF parts = <<>> THEN <<>>
    ELSE (IF Len(Head(parts)) <= max_chars THEN <<Head(parts)>>
          ELSE HardSplit(Head(parts), max_chars))
         \o SplitParts(Tail(parts), max_chars)

\* _split_long_paragraph
SplitLongParagraph(text, max_chars) ==
    LET t == Strip(text)
        sentences == StrippedNonBlank(SentenceSplit(t))
    IN  IF Len(t) <= max_chars THEN (IF t # <<>> THEN <<t>> ELSE <<>>)
        ELSE IF Len(sentences) <= 1 THEN HardSplit(t, max_chars)
        ELSE SplitParts(PackSentences(sentences, <<>>, 0, <<>>, max_chars), max_chars)

\* the units of a body: its stripped non-blank paragraphs, each split
RECURSIVE UnitsOf(_, _)
UnitsOf(paragraphs, max_chars) ==
    IF paragraphs = <<>> THEN <<>>
    ELSE SplitLongParagraph(Head(paragraphs), max_chars)
         \o UnitsOf(Tail(paragraphs), max_chars)

\* "\n\n".join(cur)
RECURSIVE JoinUnits(_)
JoinUnits(cur) ==
    IF cur = <<>> THEN <<>>
    ELSE IF Len(cur) = 1 THEN cur[1]
    ELSE cur[1] \o <<0, 0>> \o JoinUnits(Tail(cur))

\* flush: the chunks with the chunk made of cur appended; the chunk carries the
\* chunk_index and the text that _chunk_id hashes
Flush(chunks, cur) ==
    IF cur = <<>> \/ Strip(JoinUnits(cur)) = <<>> THEN chunks
    ELSE Append(chunks, [chunk_index |-> Len(chunks), text |-> Strip(JoinUnits(cur))])

\* a length that forgets the separator between two units of a chunk
AddLenNoSeparator(u, cur) == Len(u)
\* add_len: the length a unit adds to the chunk being built
AddLen(u, cur) == Len(u) + (IF cur # <<>> THEN 2 ELSE 0)

\* the unit loop of chunk_canonical_object; add_len is computed before the flush, so
\* the unit that starts a new chunk is counted with the separator
RECURSIVE PackUnits(_, _, _, _, _)
PackUnits(units, cur, cur_len, chunks, max_chars) ==
    IF units = <<>> THEN Flush(chunks, cur)
    ELSE LET u == Head(units)
         IN  IF u = <<>> THEN PackUnits(Tail(units), cur, cur_len, chunks, max_chars)
             ELSE IF cur # <<>> /\ cur_len + AddLen(u, cur) > max_chars
             THEN PackUnits(Tail(units), <<u>>, AddLen(u, cur), Flush(chunks, cur),
                            max_chars)
             ELSE PackUnits(Tail(units), Append(cur, u), cur_len + AddLen(u, cur),
                            chunks, max_chars)

\* chunk_canonical_object on a body that is a list of paragraphs
ChunkCanonicalObject(body, max_chars) ==
    PackUnits(UnitsOf(StrippedNonBlank(body), max_chars), <<>>, 0, <<>>, max_chars)

-----------------------------------------------------------------------------
(* The chunker specification: bodies and max_chars are drawn, the chunker runs *)

MaxParagraphLen == 5
MaxChunkChars == 5
MaxChunkOps == 1

RECURSIVE TextsUpTo(_)
TextsUpTo(n) ==
    IF n = 0 THEN {<<>>}
    ELSE LET shorter == TextsUpTo(n - 1)
         IN  shorter \cup {Append(t, c) : t \in {x \in shorter : Len(x) = n - 1},
                                          c \in {0, 1, FullStop}}

ChunkBodies ==
    {<<p>> : p \in TextsUpTo(MaxParagraphLen)}
    \cup {<<p, q>> : p \in TextsUpTo(2), q \in TextsUpTo(2)}

InitChunk ==
    /\ SetWorldInit(EmptyWorld)
    /\ env = DefaultEnv
    /\ obs = NoObs
    /\ active = [d \in Domains |-> ""]
    /\ audit = [d \in Domains |-> <<>>]
    /\ last = [op |-> "none"]
    /\ written = {}
    /\ nops = 0
    /\ procs = <<>>

Chunking(body, max_chars) ==
    /\ nops < MaxChunkOps
    /\ nops' = nops + 1
    /\ last' = [op |-> "chunk", body |-> body, max_chars |-> max_chars,
                chunks |-> ChunkCanonicalObject(body, max_chars)]
    /\ UNCHANGED <<storeVars, relVars, written, procs, captures, env, obs>>

NextChunk == \E body \in ChunkBodies, max_chars \in 1..MaxChunkChars : Chunking(body, max_chars)

SpecChunk == InitChunk /\ [][NextChunk]_vars

\* C25: every chunk the chunker emits has a text of 1 to max_chars characters, and the
\* chunk_index values of one object count 0, 1, 2, ... in emission order
C25_ChunkLength ==
    last.op = "chunk" =>
        \A k \in 1..Len(last.chunks) :
            /\ 1 <= Len(last.chunks[k].text)
            /\ Len(last.chunks[k].text) <= last.max_chars
            /\ last.chunks[k].chunk_index = k - 1

\* a paragraph of two sentences, longer than max_chars, chunked into several chunks
C25_Witness ==
    /\ last.op = "chunk" /\ Len(last.body) = 1
    /\ Len(Strip(last.body[1])) > last.max_chars
    /\ Len(StrippedNonBlank(SentenceSplit(Strip(last.body[1])))) = 2
    /\ Len(last.chunks) >= 2

-----------------------------------------------------------------------------
(* gates.py: the offline checks.  The schema files are not part of the sources: *)
(* a file the program wrote is taken as schema-valid when it has the fields the *)
(* program writes.                                                             *)

GateIssue(code, d, r, line) == [code |-> code, d |-> d, r |-> r, line |-> line]

\* validate_instance("chunk.json", payload)
ChunkSchemaValid(payload) == {"chunk_id", "domain", "release_id"} \subseteq DOMAIN payload

\* check_vector_index, the chunk file of a row
RowChunkIssues(chunks, row) ==
    LET ch_path == ChunkPath(row.domain, row.release_id, row.chunk_id)
    IN  IF ch_path \notin DOMAIN chunks THEN {"index_missing_chunk_file"}
        ELSE IF ~ChunkSchemaValid(chunks[ch_path]) THEN {"index_chunk_invalid"}
        ELSE {}

\* the embedding checks without the test that the file exists
RowEmbeddingIssuesNoExists(embs, row) ==
    IF row.embedding_ref.scheme # "file" THEN {"index_embedding_ref_invalid"}
    ELSE IF row.embedding_ref.path \notin DOMAIN embs THEN {"embedding_json_invalid"}
    ELSE {}
\* check_vector_index, the embedding file of a row: _path_from_embedding_ref, the
\* file's existence, and the payload against the row
RowEmbeddingIssues(embs, row) ==
    IF row.embedding_ref.scheme # "file" THEN {"index_embedding_ref_invalid"}
    ELSE IF row.embedding_ref.path \notin DOMAIN embs THEN {"index_missing_embedding"}
    ELSE LET emb_payload == embs[row.embedding_ref.path]
         IN  (IF emb_payload.chunk_id # row.chunk_id
              THEN {"embedding_chunk_id_mismatch"} ELSE {})
             \cup (IF emb_payload.domain # row.domain
                   THEN {"embedding_domain_mismatch"} ELSE {})
             \cup (IF emb_payload.release_id # row.release_id
                   THEN {"embedding_release_id_mismatch"} ELSE {})

\* the issue codes of one line of the index.jsonl of (d, r)
RowIssues(chunks, embs, d, r, row) ==
    (IF row.domain # d THEN {"index_domain_mismatch"} ELSE {})
    \cup (IF row.release_id # r THEN {"index_release_mismatch"} ELSE {})
    \cup (IF row.chunk_id = <<>> THEN {"index_missing_chunk_id"}
          ELSE RowChunkIssues(chunks, row) \cup RowEmbeddingIssues(embs, row))

\* check_vector_index on one index.jsonl: the issues of its lines
IndexFileIssues(chunks, embs, d, r, rows) ==
    UNION { { GateIssue(code, d, r, i) : code \in RowIssues(chunks, embs, d, r, rows[i]) } :
            i \in 1..Len(rows) }

\* check_vector_index: every index.jsonl under the vector root
CheckVectorIndex(idx, chunks, embs) ==
    UNION { IndexFileIssues(chunks, embs, d, r, idx[d][r].rows) :
            d \in DOMAIN idx, r \in Releases }

\* check_chunk_store: a chunk file whose content does not match its path
CheckChunkStore(chunks) ==
    UNION { (IF chunks[p].domain # p.d THEN {GateIssue("chunk_domain_mismatch", p.d, p.r, 0)}
             ELSE {})
            \cup (IF chunks[p].release_id # p.r
                  THEN {GateIssue("chunk_release_mismatch", p.d, p.r, 0)} ELSE {})
            \cup (IF chunks[p].chunk_id # p.cid
                  THEN {GateIssue("chunk_id_mismatch", p.d, p.r, 0)} ELSE {}) :
            p \in DOMAIN chunks }

\* run_all_gates: the issues of each check
RunAllGates(idx, chunks, embs, act, rj) ==
    [release |-> ActivePointerIssues(act, rj),
     chunk |-> CheckChunkStore(chunks),
     index |-> CheckVectorIndex(idx, chunks, embs)]

-----------------------------------------------------------------------------
(* The gate specification: the store specification with runs of the gates *)

\* gates.main: the issues found and the exit code
Gates ==
    /\ \E issues \in {RunAllGates(index, chunkFiles, embFiles, active, releaseJson)} :
          last' = [op |-> "gates", issues |-> issues,
                   exit |-> IF issues.release = {} /\ issues.chunk = {} /\ issues.index = {}
                            THEN 0 ELSE 2]
    /\ UNCHANGED <<storeVars, relVars, written, nops, procs, captures, env, obs>>

NextGate == NextStore \/ Gates

SpecGate == InitStore /\ [][NextGate]_vars

\* a row whose chunk file and embedding file exist and carry the row's scope
RowBacked(row) ==
    /\ ChunkPath(row.domain, row.release_id, row.chunk_id) \in DOMAIN chunkFiles
    /\ row.embedding_ref.scheme = "file"
    /\ row.embedding_ref.path \in DOMAIN embFiles
    /\ embFiles[row.embedding_ref.path].chunk_id = row.chunk_id
    /\ embFiles[row.embedding_ref.path].domain = row.domain
    /\ embFiles[row.embedding_ref.path].release_id = row.release_id

RowEmbeddingMissing(row) ==
    row.embedding_ref.scheme = "file" /\ row.embedding_ref.path \notin DOMAIN embFiles

-----------------------------------------------------------------------------
(* Two overlapping calls of LocalJsonlVectorStore.upsert on one domain.  A call *)
(* reads index.jsonl and later writes it back; the other call may run between.  *)

IdleUpsert ==
    [pc |-> "idle", r |-> "", chunks |-> <<>>, existing |-> NoFile, error |-> "",
     read_at |-> 0, wrote_at |-> 0]

UpsertCalls == {"up1", "up2"}

InitUpsert ==
    /\ index = [d \in Domains |-> [r \in Releases |-> NoFile]]
    /\ chunkFiles = PersistedChunkFiles
    /\ embFiles = PersistedEmbFiles
    /\ canonFiles = [p \in {} |-> <<>>]
    /\ releaseJson = [p \in {} |-> <<>>]
    /\ releaseDirs = {}
    /\ active = [d \in Domains |-> ""]
    /\ audit = [d \in Domains |-> <<>>]
    /\ last = [op |-> "none"]
    /\ written = {}
    /\ nops = 0
    /\ procs = [c \in UpsertCalls |-> IdleUpsert]
    /\ captures = NoCaptures
    /\ env = DefaultEnv
    /\ obs = NoObs

\* the rows a call writes over are the ones the file holds at the time of the write
FreshExisting(existing, current) == current
\* the rows a call writes over: the ones it read into `existing`
StaleExisting(existing, current) == existing

\* upsert up to the end of the read loop: the validation, then the file is read
UpsertRead(c, r, chunks) ==
    LET e == ValidateChunks(chunks, ConcDomain, r)
    IN  /\ procs[c].pc = "idle"
        /\ nops' = nops + 1
        /\ procs' = [procs EXCEPT ![c] =
                        IF e # "" THEN [IdleUpsert EXCEPT !.pc = "done", !.r = r,
                                                          !.chunks = chunks, !.error = e]
                        ELSE [IdleUpsert EXCEPT !.pc = "write", !.r = r, !.chunks = chunks,
                                                !.existing = index[ConcDomain][r],
                                                !.read_at = nops + 1]]
        /\ UNCHANGED <<storeVars, relVars, last, written, captures, env, obs>>

\* upsert from the row loop on: the chunks are applied to the rows read and the file
\* is written; the call returns
UpsertWrite(c) ==
    LET p == procs[c]
        base == StaleExisting(p.existing, index[ConcDomain][p.r])
    IN  /\ p.pc = "write"
        /\ nops' = nops + 1
        /\ index' = [index EXCEPT ![ConcDomain][p.r] =
                        UpsertFile(base, ConcDomain, p.r, p.chunks).file]
        /\ written' = written \cup {[d |-> ConcDomain, r |-> p.r, cid |-> p.chunks[i].chunk_id] :
                                       i \in 1..Len(p.chunks)}
        /\ last' = [op |-> "upsert", d |-> ConcDomain, r |-> p.r, chunks |-> p.chunks,
                    error |-> ""]
        /\ procs' = [procs EXCEPT ![c].pc = "done", ![c].wrote_at = nops + 1]
        /\ UNCHANGED <<chunkFiles, embFiles, canonFiles, relVars, captures, env, obs>>

NextUpsert ==
    \/ \E c \in UpsertCalls, r \in Releases : \E chunks \in ChunkLists(ConcDomain, r) :
          UpsertRead(c, r, chunks)
    \/ \E c \in UpsertCalls : UpsertWrite(c)

SpecUpsert == InitUpsert /\ [][NextUpsert]_vars

\* the chunk ids of a list of chunks
ChunkIdsOf(chunks) == {chunks[i].chunk_id : i \in 1..Len(chunks)}

\* both calls returned without error
BothUpserted ==
    \A c \in UpsertCalls : procs[c].pc = "done" /\ procs[c].error = ""

\* C27: when two upserts on one (domain, release_id) both returned successfully and the
\* one that wrote last had read the file before the other wrote it, the chunk ids that
\* only the other one upserted are absent from index.jsonl: rows can be lost
C27_StaleWriteLosesRows ==
    \A c1 \in UpsertCalls, c2 \in UpsertCalls :
        (/\ c1 # c2 /\ BothUpserted
         /\ procs[c1].r = procs[c2].r
         /\ procs[c2].read_at < procs[c1].wrote_at
         /\ procs[c1].wrote_at < procs[c2].wrote_at) =>
            \A cid \in ChunkIdsOf(procs[c1].chunks) \ ChunkIdsOf(procs[c2].chunks) :
                cid \notin IdsOf(index[ConcDomain][procs[c1].r])

\* both calls returned successfully and a chunk id one of them upserted is not in the
\* index
C27_Witness ==
    /\ BothUpserted
    /\ \E c \in UpsertCalls : \E cid \in ChunkIdsOf(procs[c].chunks) :
          cid \notin IdsOf(index[ConcDomain][procs[c].r])

-----------------------------------------------------------------------------
(* observability.py: record_event and increment *)

\* the three counters record_event increments for an event
CounterKeys(event, status) ==
    <<"event:" \o event, "status:" \o status,
      "event_status:" \o event \o ":" \o status>>

\* the line record_event appends to events.jsonl
EventLine(d, event, status, now) ==
    [timestamp |-> now, domain |-> d, event |-> event, status |-> status]

\* a write of the line that replaces the file
OverwriteLine(events, line) == <<line>>
\* the file opened in mode "a": the line goes after the last one
AppendLine(events, line) == Append(events, line)

\* increment, the read: the counters of the file, none when it is absent or does not
\* parse, with the key raised by one
ReadCounters(file) == IF file.state = "json" THEN file.map ELSE [k \in {} |-> 0]
Incremented(counters, key) ==
    Put(counters, key, (IF key \in DOMAIN counters THEN counters[key] ELSE 0) + 1)

\* the number of lines of events.jsonl a counter key counts
EventCount(events, key) ==
    Cardinality({i \in 1..Len(events) :
                    \E k \in 1..3 : CounterKeys(events[i].event, events[i].status)[k] = key})

-----------------------------------------------------------------------------
(* Two overlapping record_event calls on one domain *)

IdleRecord ==
    [pc |-> "idle", payload |-> <<>>, k |-> 0, counters |-> [q \in {} |-> 0]]

RecordCalls == {"rec1", "rec2"}

EventPairs == { <<"run", "success">>, <<"run", "error">>, <<"merge", "success">> }

InitObs ==
    /\ SetWorldInit(EmptyWorld)
    /\ env = DefaultEnv
    /\ obs = NoObs
    /\ active = [d \in Domains |-> ""]
    /\ audit = [d \in Domains |-> <<>>]
    /\ last = [op |-> "none"]
    /\ written = {}
    /\ nops = 0
    /\ procs = [c \in RecordCalls |-> IdleRecord]

\* record_event up to the end of the with block: the line is appended
RecordAppend(c, event, status) ==
    LET line == EventLine(ConcDomain, event, status, nops + 1)
    IN  /\ procs[c].pc = "idle"
        /\ nops' = nops + 1
        /\ obs' = [obs EXCEPT ![ConcDomain].events = AppendLine(@, line)]
        /\ procs' = [procs EXCEPT ![c] = [IdleRecord EXCEPT !.pc = "read", !.payload = line,
                                                              !.k = 1]]
        /\ UNCHANGED <<storeVars, relVars, last, written, captures, env>>

\* increment of the k-th key, up to the new value of counters[key]
IncrementRead(c) ==
    LET p == procs[c]
        key == CounterKeys(p.payload.event, p.payload.status)[p.k]
    IN  /\ p.pc = "read"
        /\ nops' = nops + 1
        /\ procs' = [procs EXCEPT ![c].pc = "open",
                        ![c].counters = Incremented(ReadCounters(obs[ConcDomain].counters), key)]
        /\ UNCHANGED <<storeVars, relVars, last, written, captures, env, obs>>

\* write_text, the open: the file is truncated
IncrementOpen(c) ==
    /\ procs[c].pc = "open"
    /\ nops' = nops + 1
    /\ obs' = [obs EXCEPT ![ConcDomain].counters =
                  [state |-> "unparsable", map |-> [k \in {} |-> 0], opened_by |-> c]]
    /\ procs' = [procs EXCEPT ![c].pc = "write"]
    /\ UNCHANGED <<storeVars, relVars, last, written, captures, env>>

\* write_text, the write: the file holds the counters of this call, unless another
\* writer wrote into the file since this call opened it, and then it may hold a mix of
\* the two texts; record_event returns after the third key
IncrementWrite(c, mixed) ==
    LET p == procs[c]
    IN  /\ p.pc = "write"
        /\ mixed => obs[ConcDomain].counters.opened_by # c
        /\ nops' = nops + 1
        /\ obs' = [obs EXCEPT ![ConcDomain].counters =
                      IF mixed THEN [state |-> "unparsable", map |-> [k \in {} |-> 0],
                                     opened_by |-> ""]
                      ELSE [state |-> "json", map |-> p.counters, opened_by |-> ""]]
        /\ procs' = [procs EXCEPT ![c].pc = IF p.k < 3 THEN "read" ELSE "done",
                                  ![c].k = IF p.k < 3 THEN p.k + 1 ELSE p.k]
        /\ last' = IF p.k < 3 THEN last
                   ELSE [op |-> "record_event", d |-> ConcDomain, payload |-> p.payload]
        /\ UNCHANGED <<storeVars, relVars, written, captures, env>>

NextObs ==
    \/ \E c \in RecordCalls, ev \in EventPairs : RecordAppend(c, ev[1], ev[2])
    \/ \E c \in RecordCalls : IncrementRead(c)
    \/ \E c \in RecordCalls : IncrementOpen(c)
    \/ \E c \in RecordCalls, mixed \in BOOLEAN : IncrementWrite(c, mixed)

SpecObs == InitObs /\ [][NextObs]_vars

\* C28: under overlapping record_event calls on one domain every counter is at most the
\* number of lines of events.jsonl it counts, and every call that has passed its append
\* has its line in the file
C28_CountersBelowEvents ==
    LET o == obs[ConcDomain]
    IN  /\ \A key \in DOMAIN o.counters.map :
              o.counters.map[key] <= EventCount(o.events, key)
        /\ \A c \in RecordCalls :
              procs[c].pc # "idle" => \E i \in 1..Len(o.events) : o.events[i] = procs[c].payload

\* both calls returned and a counter is strictly below the number of its events
C28_Witness ==
    LET o == obs[ConcDomain]
    IN  /\ \A c \in RecordCalls : procs[c].pc = "done"
        /\ o.counters.state = "json"
        /\ \E c \in RecordCalls :
              LET key == CounterKeys(procs[c].payload.event, procs[c].payload.status)[1]
              IN  /\ key \in DOMAIN o.counters.map
                  /\ o.counters.map[key] < EventCount(o.events, key)

-----------------------------------------------------------------------------
(* The merge-failure specification: the store specification started on a disk *)
(* where the chunk file of chunk "b" is missing in release r2                  *)

InitMerge ==
    /\ index = [d \in Domains |-> [r \in Releases |-> NoFile]]
    /\ chunkFiles = [p \in {q \in DOMAIN PersistedChunkFiles : ~(q.r = "r2" /\ q.cid = <<2>>)} |->
                        PersistedChunkFiles[p]]
    /\ embFiles = PersistedEmbFiles
    /\ canonFiles = [p \in {} |-> <<>>]
    /\ releaseJson = [p \in {} |-> <<>>]
    /\ releaseDirs = {}
    /\ active = [d \in Domains |-> ""]
    /\ audit = [d \in Domains |-> <<>>]
    /\ last = [op |-> "none"]
    /\ written = {}
    /\ nops = 0
    /\ procs = <<>>
    /\ captures = NoCaptures
    /\ env = DefaultEnv
    /\ obs = NoObs

SpecMerge == InitMerge /\ [][NextStore]_vars

\* the failures of a merge on a row of a source
MergeFileErrors == {"missing chunk file", "unsupported embedding_ref", "missing embedding file"}

\* C30: a merge that fails because a chunk file or an embedding file is missing, or
\* because an embedding_ref has an unsupported scheme, raises and leaves every
\* index.jsonl, the target's included, as it was: absent or the same lines
C30_FailedMergeKeepsIndex ==
    [][(last'.op = "merge" /\ nops' = nops + 1 /\ last'.error \in MergeFileErrors) =>
          index' = index]_vars

\* a merge failed on a missing chunk file while the target already had an index
C30_Witness ==
    /\ last.op = "merge"
    /\ last.error = "missing chunk file"
    /\ index[last.d][last.target].present
    /\ index[last.d][last.target].rows # <<>>

-----------------------------------------------------------------------------
(* Claims on the validation of the merge handler and of run_ingestion *)

\* the source release ids of a request that are not blank
NonBlankSources(source_release_ids) ==
    {j \in 1..Len(source_release_ids) : StripStr(source_release_ids[j]) # ""}

\* C31: a merge request with fewer than two non-blank source release ids is rejected
\* with the validation error and no release record, index, chunk, embedding or canonical
\* file is created or modified
C31_MergeNeedsTwoSources ==
    [][(last'.op = "merge" /\ nops' = nops + 1
        /\ Cardinality(NonBlankSources(last'.sources)) < 2) =>
          /\ last'.error = "source_release_ids must include at least two releases"
          /\ World' = World]_vars

\* a merge with one non-blank source was rejected on a store that holds a release
C31_Witness ==
    /\ last.op = "merge"
    /\ Cardinality(NonBlankSources(last.sources)) = 1
    /\ last.error = "source_release_ids must include at least two releases"
    /\ \E r \in Releases : index[last.d][r].present

-----------------------------------------------------------------------------
(* The pipeline specification: run_ingestion called directly, one call after   *)
(* another, on the store a finished run of ItemB into r2 left                  *)

MaxRunOps == 2

RunIngestionCall(d, source_id, r, raw_html, write_release, raises) ==
    \E res \in {RunIngestion(World, d, source_id, r, raw_html, write_release, raises, nops)} :
        /\ nops < MaxRunOps
        /\ nops' = nops + 1
        /\ SetWorld(res.world)
        /\ last' = [op |-> "run_ingestion", d |-> d, source_id |-> source_id, r |-> r,
                    raw_html |-> raw_html, write_release |-> write_release,
                    raises |-> raises, error |-> res.error, counts |-> res.counts]
        /\ UNCHANGED <<active, audit, written, procs, env, obs>>

NextRun ==
    \E d \in {ConcDomain, " "}, source_id \in {"sA", " "},
       r \in Releases \cup {"  "}, raw_html \in {"hA", "hB", " ", ""},
       write_release \in BOOLEAN, raises \in {"none", "embed", "upsert"} :
        RunIngestionCall(d, source_id, r, raw_html, write_release, raises)

SpecRun == InitConc /\ [][NextRun]_vars

\* an argument of run_ingestion that is empty or whitespace only
BlankArgument(call) ==
    \/ StripStr(call.d) = ""
    \/ StripStr(call.source_id) = ""
    \/ StripStr(call.r) = ""
    \/ StripStr(call.raw_html) = ""

\* C32: run_ingestion called with an empty or whitespace-only domain, source_id,
\* release_id or raw_html raises the validation error of that argument and creates or
\* modifies no canonical, chunk, embedding, index or release file
C32_BlankInputTouchesNothing ==
    [][(last'.op = "run_ingestion" /\ nops' = nops + 1 /\ BlankArgument(last')) =>
          /\ last'.error \in {"domain is required", "source_id is required",
                              "release_id is required", "raw_html is required"}
          /\ World' = World]_vars

\* a run with a whitespace-only raw_html and the other arguments given was rejected
C32_Witness ==
    /\ last.op = "run_ingestion"
    /\ last.raw_html = " " /\ last.d = ConcDomain /\ last.source_id = "sA" /\ last.r = "r1"
    /\ last.error = "raw_html is required"

\* the chunk ids a valid run of run_ingestion produces
RunChunkIds(call) ==
    ChunkIdsOf(ItemChunks(call.d, call.r,
                          [source_id |-> call.source_id, raw_html |-> call.raw_html]))

\* C33: a run of run_ingestion in which a stage raises creates or changes no
\* release.json, and a run that writes the release record leaves an index that holds
\* all the chunks of the run
C33_ReleaseAfterUpsert ==
    [][(last'.op = "run_ingestion" /\ nops' = nops + 1) =>
          /\ last'.error # "" => (releaseJson' = releaseJson /\ releaseDirs' = releaseDirs)
          /\ releaseJson' # releaseJson =>
                /\ last'.write_release
                /\ RunChunkIds(last') \subseteq IdsOf(index'[last'.d][last'.r])]_vars

\* a run with write_release raised in the upsert after an earlier run had written the
\* record of the same release
C33_Witness ==
    /\ last.op = "run_ingestion" /\ last.write_release
    /\ last.raises = "upsert" /\ last.error = "index write failed"
    /\ <<last.d, last.r>> \in DOMAIN releaseJson

-----------------------------------------------------------------------------
(* The frame of upsert, on the store specification *)

\* the rows of an index file as a set
RowSet(file) == {file.rows[j] : j \in 1..Len(file.rows)}

\* the row upsert writes for a chunk id of its input: that of the last chunk with the id
NewRowFor(chunks, domain, release_id, cid) ==
    LET at == {j \in 1..Len(chunks) : chunks[j].chunk_id = cid}
        j == CHOOSE x \in at : \A y \in at : y <= x
    IN  RowOfChunk(chunks[j], domain, release_id)

-----------------------------------------------------------------------------
(* vector_store.py: the in-memory index, and the specification that compares it *)
(* with the store on disk                                                       *)

\* load_in_memory_index, the row loop: the items in file order, each row with the
\* vector its embedding_ref names; ok is FALSE when a load raised
RECURSIVE LoadItems(_, _)
LoadItems(rows, ef) ==
    IF rows = <<>> THEN [ok |-> TRUE, items |-> <<>>]
    ELSE LET obj == Head(rows)
             v == LoadVector(obj.embedding_ref, ef)
             rest == LoadItems(Tail(rows), ef)
         IN  IF ~v.ok \/ ~rest.ok THEN [ok |-> FALSE, items |-> <<>>]
             ELSE [ok |-> TRUE,
                   items |-> <<[chunk_id |-> obj.chunk_id, domain |-> obj.domain,
                                release_id |-> obj.release_id, text |-> obj.text,
                                embedding_ref |-> obj.embedding_ref, vector |-> v.vec,
                                concept_id |-> obj.concept_id, level |-> obj.level]>>
                             \o rest.items]

\* load_in_memory_index: the error raised ("" when none) and the items loaded
LoadInMemoryIndex(idx, ef, domain, release_id) ==
    IF domain = "" THEN [error |-> "domain is required", items |-> <<>>]
    ELSE IF release_id = "" THEN [error |-> "release_id is required", items |-> <<>>]
    ELSE IF ~idx[domain][release_id].present THEN [error |-> "", items |-> <<>>]
    ELSE LET l == LoadItems(idx[domain][release_id].rows, ef)
         IN  IF l.ok THEN [error |-> "", items |-> l.items]
             ELSE [error |-> "FileNotFoundError", items |-> <<>>]

\* InMemoryVectorIndex.query
InMemoryQuery(items, query_vector, filters, top_k) ==
    IF top_k <= 0 THEN <<>>
    ELSE LET matching == SelectSeq(items, LAMBDA it : MatchesFilters(it, filters))
             cands == [i \in 1..Len(matching) |->
                          [score |-> Cosine(query_vector, matching[i].vector),
                           obj |-> matching[i]]]
             top == Take(SortCands(cands, <<>>), top_k)
         IN  [i \in 1..Len(top) |-> RowOut(top[i])]

\* load_in_memory_index(domain, release_id).query(...)
MemoryQuery(idx, ef, domain, release_id, query_vector, filters, top_k) ==
    LET loaded == LoadInMemoryIndex(idx, ef, domain, release_id)
    IN  IF loaded.error # "" THEN [error |-> loaded.error, rows |-> <<>>]
        ELSE [error |-> "",
              rows |-> InMemoryQuery(loaded.items, query_vector, filters, top_k)]

\* the same query put to the store on disk and to a freshly loaded in-memory index
CompareQuery(d, r, query_vector, filters, top_k) ==
    /\ last' = [op |-> "compare", d |-> d, r |-> r, query_vector |-> query_vector,
                filters |-> filters, top_k |-> top_k,
                disk |-> QueryStore(index, embFiles, d, r, query_vector, filters, top_k),
                memory |-> MemoryQuery(index, embFiles, d, r, query_vector, filters, top_k)]
    /\ UNCHANGED <<storeVars, relVars, written, nops, procs, captures, env, obs>>

NextMemory ==
    \/ \E chunks \in ValidLists("d1", "r1") : Upsert("d1", "r1", chunks) /\ UNCHANGED nops
    \/ \E r \in Releases, q \in QueryVectors, f \in FilterDicts, k \in (-1)..MaxTopK :
          CompareQuery("d1", r, q, f, k)

SpecMemory == InitStore /\ [][NextMemory]_vars

\* C35: on every existing index, for every query vector, filters and top_k, the
\* in-memory index loaded from it answers a query as the store on disk does: the same
\* rows in the same order with the same scores
C35_MemoryEqualsDisk ==
    (last.op = "compare" /\ index[last.d][last.r].present) => last.memory = last.disk

-----------------------------------------------------------------------------
(* section_classifier.py: classify_section.  A section is given by what the     *)
(* classifier reads off its normalized kind, title and text: the kind, the       *)
(* number of non-instructional phrases and hints found, whether a table of       *)
(* contents is recognised, the word tokens (how many, how many of length <= 3,   *)
(* how many instructional verbs) and whether the text has fewer than 40          *)
(* characters.  Scores are counted in halves: score2 = 2 * score.                *)

\* the largest number of word tokens of a section
MaxWords == 20

\* score += 3.0 for the kinds howto, example, definition; 1.0 for note, explanation
KindScore2(kind) ==
    IF kind \in {"howto", "example", "definition"} THEN 6
    ELSE IF kind \in {"note", "explanation"} THEN 2
    ELSE 0

\* score += min(2.0, 0.5 * verb_hits)
VerbScore2(verb_hits) == IF verb_hits < 4 THEN verb_hits ELSE 4

\* ratio > 0.55 and len(words) >= 12, for ratio = short / len(words)
ShortWordPenalty(words, short) ==
    words > 0 /\ 100 * short > 55 * words /\ words >= 12

\* classify_section
ClassifySection(sec) ==
    IF sec.empty THEN [is_instructional |-> FALSE, score2 |-> -20, reasons |-> {"empty_text"}]
    ELSE LET score2 ==
                 KindScore2(sec.kind) - 12 * sec.phrases - 2 * sec.hints
                 - (IF sec.toc THEN 16 ELSE 0) + VerbScore2(sec.verb_hits)
                 - (IF ShortWordPenalty(sec.words, sec.short) THEN 4 ELSE 0)
                 - (IF sec.too_short THEN 3 ELSE 0)
         IN  [is_instructional |-> score2 >= 1, score2 |-> score2,
              reasons |->
                  (IF KindScore2(sec.kind) > 0 THEN {"kind"} ELSE {})
                  \cup (IF sec.phrases > 0 THEN {"non_instr_phrase"} ELSE {})
                  \cup (IF sec.hints > 0 THEN {"non_instr_hint"} ELSE {})
                  \cup (IF sec.toc THEN {"toc"} ELSE {})
                  \cup (IF sec.verb_hits > 0 THEN {"verb_hits"} ELSE {})
                  \cup (IF ShortWordPenalty(sec.words, sec.short)
                        THEN {"nav_like_short_word_ratio"} ELSE {})
                  \cup (IF sec.too_short THEN {"too_short"} ELSE {})]

-----------------------------------------------------------------------------
(* The classifier specification: one section is drawn and classified *)

MaxClassifyOps == 1

\* the sections tried: a text of w words, s of them short, is shorter than 40
\* characters only if its words and the blanks between them fit
ClassifierSections ==
    { [empty |-> w = 0, kind |-> kind, phrases |-> ph, hints |-> 0, toc |-> FALSE,
       words |-> w, short |-> s, verb_hits |-> v, too_short |-> ts] :
        kind \in {"howto", "note", ""}, ph \in {0, 1}, w \in 0..MaxWords,
        s \in 0..MaxWords, v \in {0, 1, 5}, ts \in BOOLEAN }
    \cap { sec \in [empty : BOOLEAN, kind : {"howto", "note", ""}, phrases : {0, 1},
                    hints : {0}, toc : {FALSE}, words : 0..MaxWords, short : 0..MaxWords,
                    verb_hits : {0, 1, 5}, too_short : BOOLEAN] :
              /\ sec.short <= sec.words
              /\ sec.verb_hits <= sec.words
              /\ sec.too_short = (sec.short + 4 * (sec.words - sec.short) + sec.words - 1 < 40) }

Classify(sec) ==
    /\ nops < MaxClassifyOps
    /\ nops' = nops + 1
    /\ last' = [op |-> "classify", section |-> sec, res |-> ClassifySection(sec)]
    /\ UNCHANGED <<storeVars, relVars, written, procs, captures, env, obs>>

NextClassify == \E sec \in ClassifierSections : Classify(sec)

SpecClassify == InitChunk /\ [][NextClassify]_vars

\* C36: the classifier applies the short-word penalty exactly when the text has at
\* least 12 word tokens and at least 55% of them have length <= 3, exactly 55%
\* included, and a section is kept iff its score is >= 0.5
C36_ShortWordPenalty ==
    (last.op = "classify" /\ ~last.section.empty) =>
        /\ ("nav_like_short_word_ratio" \in last.res.reasons)
              <=> (last.section.words >= 12
                   /\ 100 * last.section.short >= 55 * last.section.words)
        /\ last.res.is_instructional <=> (last.res.score2 >= 1)


-----------------------------------------------------------------------------
(* distiller.py: extract_blocks and distill_sections_from_html.  The raw html   *)
(* is given by the block matches found in it, in order: each match has a tag,    *)
(* its offset (its position among the matches) and its cleaned text; text 0 is   *)
(* boilerplate.  A clean_text is the sequence of block texts joined into it.     *)

NoTitle == 0

\* _is_boilerplate
IsBoilerplate(text) == text = 0

\* the loop of extract_blocks over blocks[i..]: a block whose text was seen is dropped
RECURSIVE Dedupe(_, _, _)
Dedupe(blocks, i, seen) ==
    IF i > Len(blocks) THEN <<>>
    ELSE IF blocks[i].text \in seen THEN Dedupe(blocks, i + 1, seen)
    ELSE <<blocks[i]>> \o Dedupe(blocks, i + 1, seen \cup {blocks[i].text})

\* extract_blocks
ExtractBlocks(matches) ==
    Dedupe(SelectSeq([i \in 1..Len(matches) |->
                         [tag |-> matches[i].tag, start |-> i, text |-> matches[i].text]],
                     LAMBDA b : ~IsBoilerplate(b.text)),
           1, {})

\* b.tag.startswith("h")
IsHeading(b) == b.tag \in {"h1", "h2", "h3", "h4", "h5", "h6"}

NoCurrent(sections) ==
    [sections |-> sections, current_title |-> NoTitle,
     current_evidence |-> <<>>, current_parts |-> <<>>]

\* flush of distill_sections_from_html
FlushSection(st) ==
    IF st.current_parts = <<>> THEN NoCurrent(st.sections)
    ELSE NoCurrent(Append(st.sections,
                          [title |-> st.current_title, clean_text |-> st.current_parts,
                           evidence |-> st.current_evidence]))

\* the loop of distill_sections_from_html over blocks[i..]
RECURSIVE GroupByHeading(_, _, _)
GroupByHeading(blocks, i, st) ==
    IF i > Len(blocks) THEN FlushSection(st).sections
    ELSE IF IsHeading(blocks[i])
         THEN GroupByHeading(blocks, i + 1,
                  [FlushSection(st) EXCEPT !.current_title = blocks[i].text,
                                           !.current_evidence = <<blocks[i].start>>])
         ELSE GroupByHeading(blocks, i + 1,
                  [st EXCEPT !.current_parts = Append(@, blocks[i].text),
                             !.current_evidence = Append(@, blocks[i].start)])

\* the section of all blocks: if not sections and blocks
WholeSection(blocks) ==
    [title |-> NoTitle, clean_text |-> [i \in 1..Len(blocks) |-> blocks[i].text],
     evidence |-> [i \in 1..Len(blocks) |-> blocks[i].start]]

\* distill_sections_from_html, on the extracted blocks
DistillSections(blocks) ==
    LET sections == GroupByHeading(blocks, 1, NoCurrent(<<>>))
    IN  IF sections = <<>> /\ blocks # <<>> THEN <<WholeSection(blocks)>> ELSE sections

-----------------------------------------------------------------------------
(* The distiller specification: one html input is drawn and distilled *)

MaxBlocks == 3
MaxTexts == 4
MaxDistillOps == 1

BlockMatches ==
    UNION { [1..n -> [tag : {"h2", "p"}, text : 0..MaxTexts]] : n \in 0..MaxBlocks }

Distill(matches) ==
    /\ nops < MaxDistillOps
    /\ nops' = nops + 1
    /\ \E blocks \in {ExtractBlocks(matches)} :
          last' = [op |-> "distill", blocks |-> blocks, sections |-> DistillSections(blocks)]
    /\ UNCHANGED <<storeVars, relVars, written, procs, captures, env, obs>>

NextDistill == \E matches \in BlockMatches : Distill(matches)

SpecDistill == InitChunk /\ [][NextDistill]_vars

HeadingSeen(blocks) == \E i \in 1..Len(blocks) : IsHeading(blocks[i])

HeadingTexts(blocks) == { blocks[i].text : i \in { j \in 1..Len(blocks) : IsHeading(blocks[j]) } }

\* C37: the single untitled section spanning all blocks is emitted only when no
\* heading was seen among the extracted blocks and at least one block exists; when
\* a heading was seen, no heading text is part of the body text of a section
C37_FallbackOnlyWithoutHeading ==
    last.op = "distill" =>
        /\ (last.sections = <<WholeSection(last.blocks)>>)
              => (~HeadingSeen(last.blocks) /\ last.blocks # <<>>)
        /\ HeadingSeen(last.blocks) =>
              \A i \in 1..Len(last.sections) : \A j \in 1..Len(last.sections[i].clean_text) :
                  last.sections[i].clean_text[j] \notin HeadingTexts(last.blocks)


-----------------------------------------------------------------------------
(* Two overlapping capture requests for one (domain, source_id).  A request     *)
(* writes the raw html file and later saves the capture record; the other       *)
(* request may run between.                                                      *)

IdleCapture == [pc |-> "idle", error |-> "", capture |-> <<>>]

CaptureCalls == {"cap1", "cap2"}

CaptureSource == "sA"

InitCaptureConc ==
    /\ index = [d \in Domains |-> [r \in Releases |-> NoFile]]
    /\ chunkFiles = [p \in {} |-> <<>>]
    /\ embFiles = [p \in {} |-> <<>>]
    /\ canonFiles = [p \in {} |-> <<>>]
    /\ releaseJson = [p \in {} |-> <<>>]
    /\ releaseDirs = {}
    /\ active = [d \in Domains |-> ""]
    /\ audit = [d \in Domains |-> <<>>]
    /\ last = [op |-> "none"]
    /\ written = {}
    /\ nops = 0
    /\ procs = [c \in CaptureCalls |-> IdleCapture]
    /\ captures = NoCaptures
    /\ env = DefaultEnv
    /\ obs = NoObs

\* a capture request up to raw_path.write_text: res is what the whole request does
\* when nothing runs between; a rejected request ends here
CaptureWriteHtml(c, res) ==
    LET path == CapturePath(ConcDomain, CaptureSource)
    IN  /\ procs[c].pc = "idle"
        /\ nops' = nops + 1
        /\ IF res.error # ""
           THEN /\ procs' = [procs EXCEPT ![c] = [IdleCapture EXCEPT !.pc = "done",
                                                                   !.error = res.error]]
                /\ UNCHANGED captures
           ELSE /\ procs' = [procs EXCEPT ![c] = [IdleCapture EXCEPT !.pc = "save",
                                                                   !.capture = res.capture]]
                /\ captures' = [captures EXCEPT
                                   !.html = Put(@, path, res.captures.html[path])]
        /\ UNCHANGED <<storeVars, relVars, last, written, env, obs>>

\* ingestion_raw_capture up to raw_path.write_text
RawCaptureWriteHtml(c, fetch, quarantine_suspicious) ==
    CaptureWriteHtml(c, RawCapture(captures, ConcDomain, CaptureSource, fetch,
                                   quarantine_suspicious, nops))

\* ingestion_file_capture up to raw_path.write_text
FileCaptureWriteHtml(c, file, quarantine_suspicious) ==
    CaptureWriteHtml(c, FileCapture(captures, ConcDomain, CaptureSource, file,
                                    quarantine_suspicious, nops))

\* _save_capture: the record built from the request's own html is written; the
\* request returns
CaptureSaveRecord(c) ==
    /\ procs[c].pc = "save"
    /\ nops' = nops + 1
    /\ captures' = [captures EXCEPT
                       !.meta = Put(@, CapturePath(ConcDomain, CaptureSource),
                                    procs[c].capture)]
    /\ procs' = [procs EXCEPT ![c].pc = "done"]
    /\ UNCHANGED <<storeVars, relVars, last, written, env, obs>>

NextCaptureConc ==
    \/ \E c \in CaptureCalls, f \in FetchResults, qs \in BOOLEAN :
          RawCaptureWriteHtml(c, f, qs)
    \/ \E c \in CaptureCalls, f \in Uploads, qs \in BOOLEAN :
          FileCaptureWriteHtml(c, f, qs)
    \/ \E c \in CaptureCalls : CaptureSaveRecord(c)

SpecCaptureConc == InitCaptureConc /\ [][NextCaptureConc]_vars

\* C39: in every state where no capture request for (domain, source_id) is in
\* progress, the content_hash of the stored capture record is the hash of the raw
\* file at its raw_html_path, also after overlapping captures of the same source_id
C39_RecordHashMatchesFile ==
    (\A c \in CaptureCalls : procs[c].pc \in {"idle", "done"}) =>
        \A p \in DOMAIN captures.meta :
            /\ captures.meta[p].raw_html_path \in DOMAIN captures.html
            /\ captures.meta[p].content_hash = captures.html[captures.meta[p].raw_html_path]


-----------------------------------------------------------------------------
(* record_event calls on one domain that never overlap, and list_events *)

MaxRecordOps == 3

\* field values of an event: plain text, or text holding U+2028, a line boundary of
\* str.splitlines that json.dumps with ensure_ascii=False writes as it is
LineSeparatorText == "x<U+2028>y"
FieldTexts == {"x", LineSeparatorText}

\* the lines of events.jsonl as read_text().splitlines() gives them, each with
\* whether json.loads accepts it: the text of an event holding U+2028 comes back as
\* two pieces, neither of them a JSON document
RECURSIVE SplitLines(_)
SplitLines(events) ==
    IF events = <<>> THEN <<>>
    ELSE LET e == Head(events)
         IN  (IF e.error = LineSeparatorText
              THEN <<[parses |-> FALSE, obj |-> e], [parses |-> FALSE, obj |-> e]>>
              ELSE <<[parses |-> TRUE, obj |-> e]>>) \o SplitLines(Tail(events))

\* ObservabilityStore.list_events: the last `limit` lines, newest first, the ones that
\* do not parse left out
ListEvents(events, limit) ==
    IF limit <= 0 \/ events = <<>> THEN <<>>
    ELSE LET lines == SplitLines(events)
             n == IF Len(lines) < limit THEN Len(lines) ELSE limit
             newest == [i \in 1..n |-> lines[Len(lines) + 1 - i]]
             kept == SelectSeq(newest, LAMBDA l : l.parses)
         IN  [i \in 1..Len(kept) |-> kept[i].obj]

\* ObservabilityStore.record_event, run from its first to its last statement
RecordEvent(event, status, error) ==
    LET line == EventLine(ConcDomain, event, status, nops + 1) @@ [error |-> error]
        keys == CounterKeys(event, status)
        c1 == Incremented(ReadCounters(obs[ConcDomain].counters), keys[1])
        c2 == Incremented(c1, keys[2])
        c3 == Incremented(c2, keys[3])
    IN  /\ nops < MaxRecordOps
        /\ nops' = nops + 1
        /\ obs' = [obs EXCEPT ![ConcDomain] =
                      [events |-> AppendLine(@.events, line),
                       counters |-> [state |-> "json", map |-> c3, opened_by |-> ""]]]
        /\ last' = [op |-> "record_event", d |-> ConcDomain, payload |-> line]
        /\ UNCHANGED <<storeVars, relVars, written, procs, captures, env>>

ListEventsCall(limit) ==
    /\ last.op = "record_event"
    /\ last' = [op |-> "list_events", d |-> ConcDomain, limit |-> limit,
                result |-> ListEvents(obs[ConcDomain].events, limit)]
    /\ UNCHANGED <<storeVars, relVars, written, nops, procs, captures, env, obs>>

RecordedEvents == {"run", "a", "a:b"}
RecordedStatuses == {"success", "c", "b:c"}

NextRecord ==
    \/ \E event \in RecordedEvents, status \in RecordedStatuses, error \in FieldTexts :
          RecordEvent(event, status, error)
    \/ \E limit \in 1..2 : ListEventsCall(limit)

SpecRecord == InitObs /\ [][NextRecord]_vars

CounterOf(counters, key) == IF key \in DOMAIN counters THEN counters[key] ELSE 0

\* C40: when record_event calls on a domain never overlap, after any sequence of them
\* counters.json holds, for every event e and status s, event:e, status:s and
\* event_status:e:s equal to the number of events.jsonl lines with that event, that
\* status and that pair, and list_events(domain, limit)[0] is the most recently
\* recorded event
C40_CountersEqualEvents ==
    LET o == obs[ConcDomain]
        counters == ReadCounters(o.counters)
        With(P(_)) == Cardinality({i \in 1..Len(o.events) : P(o.events[i])})
    IN  /\ \A e \in RecordedEvents, s \in RecordedStatuses :
              /\ CounterOf(counters, CounterKeys(e, s)[1]) = With(LAMBDA l : l.event = e)
              /\ CounterOf(counters, CounterKeys(e, s)[2]) = With(LAMBDA l : l.status = s)
              /\ CounterOf(counters, CounterKeys(e, s)[3])
                    = With(LAMBDA l : l.event = e /\ l.status = s)
        /\ last.op = "list_events" =>
              /\ last.result # <<>>
              /\ last.result[1] = o.events[Len(o.events)]

====
